---- MODULE Spec2Model ----
(***************************************************************************)
(* Scene structural optimization engine of TheNext3D:                      *)
(*   SceneAnalyzer.analyze  -> OptimizationEngine.evaluate  (detection)    *)
(*   InstancingEngine.convertToInstanced, MergeEngine.mergeMeshes,         *)
(*   LODEngine.generateLOD / generateLODForBatch            (transforms)   *)
(*                                                                         *)
(* Units.  Coordinates are integers in 1/100 of a scene unit, so a volume  *)
(* (product of three extents) is an integer in 1e-6 cubic units; the       *)
(* epsilon 0.000001 of SceneAnalyzer is exactly 1 of these.                *)
(* A matrix is a rigid map  p |-> s * Rz(r)(p) + t  with r quarter turns   *)
(* about Z, s in {1,-1} and t an integer vector: a non-commutative group   *)
(* with exact inverses, standing for THREE.Matrix4.                        *)
(* A position buffer is a sequence of runs [p, n]: n consecutive vertices  *)
(* located at point p.                                                     *)
(***************************************************************************)
EXTENDS Integers, Sequences, FiniteSets, TLC

VARIABLES nodes, geoms, rawData, report, passes, last, ops,
          call, host, sched, obs

\* the transform call in progress, the host page's React state, the pending
\* timers of the analysis hook, and what has been observed of the run so far
hostVars == <<call, host, sched, obs>>

vars == <<nodes, geoms, rawData, report, passes, last, ops, call, host, sched, obs>>

----------------------------------------------------------------------------
(* Bounds of the model *)

MaxMeshes == 3
MaxOps == 2
MaxGroups == 1
MaxGroupSize == 6
MaxTextured == 17
MaxTexturedMeshes == 2
MaxStepCalls == 1
MaxHostMeshes == 2
MaxEvents == 3
MaxDynamicMeshes == 2
MaxDebugCalls == 3

----------------------------------------------------------------------------
(* Generic helpers *)

Min2(a, b) == IF a < b THEN a ELSE b
Max2(a, b) == IF a > b THEN a ELSE b

Range(s) == {s[i] : i \in 1..Len(s)}

Includes(s, x) == \E i \in 1..Len(s) : s[i] = x

\* the indices of 1..n that are in S, ascending (the order of a forEach)
IdxWhere(n, S) ==
  LET f[i \in 0..n] == IF i = 0 THEN <<>>
                       ELSE IF i \in S THEN Append(f[i-1], i) ELSE f[i-1]
  IN f[n]

SumSeq(s) ==
  LET f[i \in 0..Len(s)] == IF i = 0 THEN 0 ELSE f[i-1] + s[i]
  IN f[Len(s)]

----------------------------------------------------------------------------
(* Matrices (THREE.Matrix4 restricted to the rigid maps described above) *)

Vec(x, y, z) == <<x, y, z>>
VAdd(a, b) == <<a[1] + b[1], a[2] + b[2], a[3] + b[3]>>
VScale(s, a) == <<s * a[1], s * a[2], s * a[3]>>

Rot(r, p) ==
  CASE r = 0 -> p
    [] r = 1 -> <<0 - p[2], p[1], p[3]>>
    [] r = 2 -> <<0 - p[1], 0 - p[2], p[3]>>
    [] r = 3 -> <<p[2], 0 - p[1], p[3]>>

Mat(r, s, t) == [r |-> r, s |-> s, t |-> t]
Identity == Mat(0, 1, <<0, 0, 0>>)

\* Vector3.applyMatrix4
ApplyMat(m, p) == VAdd(VScale(m.s, Rot(m.r, p)), m.t)

\* a.multiply(b) = a x b : b acts first
Multiply(a, b) == Mat((a.r + b.r) % 4, a.s * b.s, ApplyMat(a, b.t))

\* Matrix4.invert
Invert(m) ==
  LET ri == (4 - m.r) % 4
  IN Mat(ri, m.s, VScale(0 - m.s, Rot(ri, m.t)))

----------------------------------------------------------------------------
(* Scene graph (THREE.Object3D) *)

NoParent == -1
NoGeometry == -1
NoMaterial == -1
NoTag == [type |-> "none", originalCount |-> 0]

Root == 0

\* Object3D.matrix composed from position / rotation / scale
LocalMatrix(n) == Mat(n.rotation, n.scale, n.position)

RECURSIVE WorldMatrixOf(_, _)
\* Object3D.updateWorldMatrix(true, false): refresh the ancestors, then
\* matrixWorld = parent.matrixWorld x matrix
WorldMatrixOf(ns, id) ==
  IF ns[id].parent = NoParent THEN LocalMatrix(ns[id])
  ELSE Multiply(WorldMatrixOf(ns, ns[id].parent), LocalMatrix(ns[id]))

RECURSIVE Traverse(_, _)
RECURSIVE TraverseList(_, _)
\* Object3D.traverse: the node itself, then each child's subtree, in order
Traverse(ns, id) == <<id>> \o TraverseList(ns, ns[id].children)
TraverseList(ns, cs) ==
  IF cs = <<>> THEN <<>>
  ELSE Traverse(ns, Head(cs)) \o TraverseList(ns, Tail(cs))

\* `node instanceof THREE.Mesh` (InstancedMesh and SkinnedMesh extend Mesh)
IsMesh(n) == n.kind \in {"Mesh", "InstancedMesh"}

\* truthiness of child.userData?.optimized
IsOptimized(n) == n.optimized.type # "none"

Reachable(ns) == Range(Traverse(ns, Root))

\* variant in which remove leaves the child where it is
RemoveChildKept(ns, p, c) == ns

\* parent.remove(child)
RemoveChild(ns, p, c) ==
  [ns EXCEPT ![p].children = SelectSeq(@, LAMBDA x : x # c),
             ![c].parent = NoParent]

\* parent.add(child) for a child that has no parent yet
AddChild(ns, p, c) ==
  [ns EXCEPT ![p].children = Append(@, c), ![c].parent = p]

----------------------------------------------------------------------------
(* Geometry (THREE.BufferGeometry) *)

NoBox == [set |-> FALSE, min |-> <<0, 0, 0>>, max |-> <<0, 0, 0>>]

\* attributes.position.count
PositionCount(g) == SumSeq([i \in 1..Len(g.position) |-> g.position[i].n])

\* BufferGeometry.computeBoundingBox
ComputeBox(g) ==
  LET pts == {g.position[i].p : i \in 1..Len(g.position)}
      lo(k) == CHOOSE v \in {p[k] : p \in pts} : \A p \in pts : v <= p[k]
      hi(k) == CHOOSE v \in {p[k] : p \in pts} : \A p \in pts : v >= p[k]
  IN IF pts = {} THEN NoBox
     ELSE [set |-> TRUE, min |-> <<lo(1), lo(2), lo(3)>>,
           max |-> <<hi(1), hi(2), hi(3)>>]

\* Box3.getSize (an empty box has size 0,0,0)
BoxSize(b) ==
  IF b.set THEN <<b.max[1] - b.min[1], b.max[2] - b.min[2], b.max[3] - b.min[3]>>
  ELSE <<0, 0, 0>>

\* BufferGeometry.applyMatrix4: transforms the position attribute and
\* recomputes the bounding box when one is cached
ApplyMatrixToGeometry(g, m) ==
  LET baked == [g EXCEPT !.position =
                  [i \in 1..Len(g.position) |->
                     [p |-> ApplyMat(m, g.position[i].p), n |-> g.position[i].n]]]
  IN IF g.boundingBox.set THEN [baked EXCEPT !.boundingBox = ComputeBox(baked)]
     ELSE baked

----------------------------------------------------------------------------
(* Materials and textures: shared descriptors, read-only for the core.     *)
(* A material is the sequence of its populated texture slots.              *)

Tex(u, w, h) == [uuid |-> u, width |-> w, height |-> h]

FirstTexturedMaterial == 100

\* material 1 carries a 4K map, material 2 a 2.5K map, material 3 one 4K
\* texture in two of its slots, material 4 an 8192 x 2048 map, every material
\* from FirstTexturedMaterial on a 4K map of its own, the others no map
MaterialMaps(m) ==
  CASE m = 1 -> <<Tex(0, 4096, 4096)>>
    [] m = 2 -> <<Tex(1, 2560, 2560)>>
    [] m = 3 -> <<Tex(2, 4096, 4096), Tex(2, 4096, 4096)>>
    [] m = 4 -> <<Tex(3, 8192, 2048)>>
    [] m >= FirstTexturedMaterial -> <<Tex(m, 4096, 4096)>>
    [] OTHER -> <<>>

----------------------------------------------------------------------------
(* SceneAnalyzer.analyze: fact extraction *)

Epsilon == 1

\* size.x * size.y * size.z || 0.000001
VolumeOfBox(b) ==
  LET sz == BoxSize(b)
      v == sz[1] * sz[2] * sz[3]
  IN IF v = 0 THEN Epsilon ELSE v

\* variant that reads the cached box before it has been recomputed
MeshVolumeStale(g) == VolumeOfBox(g.boundingBox)

\* geometry.computeBoundingBox(); box = geometry.boundingBox; volume of it
MeshVolume(g) == VolumeOfBox(ComputeBox(g))

\* variant of the walker that does not look at the provenance tag
WalkedMeshesNoSkip(ns) ==
  SelectSeq(Traverse(ns, Root), LAMBDA id : IsMesh(ns[id]))

\* the nodes for which the traverse callback reaches the Mesh branch:
\* the callback returns early on a tagged node, then traverse goes on with
\* that node's children
WalkedMeshes(ns) ==
  SelectSeq(Traverse(ns, Root),
            LAMBDA id : ~IsOptimized(ns[id]) /\ IsMesh(ns[id]))

\* !mesh.skeleton && (!mesh.morphTargetInfluences || length === 0)
IsStatic(n) == ~n.skeleton /\ n.morphTargets = 0

\* (geometry.index ? geometry.index.count : vertexCount), i.e. 3 x triangleCount
TriangleCount3(g) == IF g.index >= 0 THEN g.index ELSE PositionCount(g)

\* one entry per (mesh, populated texture slot), in the order of the loops
TextureUses(ns, meshes) ==
  LET f[i \in 0..Len(meshes)] ==
        IF i = 0 THEN <<>>
        ELSE LET maps == MaterialMaps(ns[meshes[i]].material)
             IN f[i-1] \o [k \in 1..Len(maps) |-> [mesh |-> meshes[i], tex |-> maps[k]]]
  IN f[Len(meshes)]

MaxTexRes(maps) ==
  LET f[i \in 0..Len(maps)] ==
        IF i = 0 THEN 0
        ELSE Max2(f[i-1], Max2(maps[i].width, maps[i].height))
  IN f[Len(maps)]

\* the RawSceneData returned by SceneAnalyzer.analyze
analyze(ns, gs) ==
  LET meshes == WalkedMeshes(ns)
      n == Len(meshes)
      geomOf(i) == ns[meshes[i]].geometry
      matOf(i) == ns[meshes[i]].material
      gFirst == IdxWhere(n, {i \in 1..n : \A j \in 1..(i-1) : geomOf(j) # geomOf(i)})
      mFirst == IdxWhere(n, {i \in 1..n : \A j \in 1..(i-1) : matOf(j) # matOf(i)})
      uses == TextureUses(ns, meshes)
      tFirst == IdxWhere(Len(uses),
                  {i \in 1..Len(uses) :
                     \A j \in 1..(i-1) : uses[j].tex.uuid # uses[i].tex.uuid})
  IN [ meshCount |-> n,
       geometries |->
         [k \in 1..Len(gFirst) |->
            LET g == geomOf(gFirst[k])
                users == SelectSeq(meshes, LAMBDA id : ns[id].geometry = g)
            IN [uuid |-> g, count |-> Len(users),
                vertexCount |-> PositionCount(gs[g]), affectedUuids |-> users]],
       materials |->
         [k \in 1..Len(mFirst) |->
            LET m == matOf(mFirst[k])
                users == SelectSeq(meshes, LAMBDA id : ns[id].material = m)
            IN [uuid |-> m, count |-> Len(users), affectedUuids |-> users,
                hasTextures |-> MaterialMaps(m) # <<>>]],
       textures |->
         [k \in 1..Len(tFirst) |->
            LET t == uses[tFirst[k]].tex
                us == SelectSeq(uses, LAMBDA u : u.tex.uuid = t.uuid)
            IN [uuid |-> t.uuid, width |-> t.width, height |-> t.height,
                affectedUuids |-> [i \in 1..Len(us) |-> us[i].mesh]]],
       meshDetails |->
         [i \in 1..n |->
            LET g == gs[geomOf(i)]
            IN [uuid |-> meshes[i],
                geometryUuid |-> geomOf(i),
                materialUuid |-> matOf(i),
                volume |-> MeshVolume(g),
                vertexCount |-> PositionCount(g),
                triangleCount3 |-> TriangleCount3(g),
                isStatic |-> IsStatic(ns[meshes[i]]),
                textureMaxRes |-> MaxTexRes(MaterialMaps(matOf(i)))]] ]

\* side effect of analyze: geometry.computeBoundingBox() on every walked mesh
analyzeGeoms(ns, gs) ==
  LET used == {ns[id].geometry : id \in Range(WalkedMeshes(ns))}
  IN [g \in DOMAIN gs |->
        IF g \in used THEN [gs[g] EXCEPT !.boundingBox = ComputeBox(gs[g])]
        ELSE gs[g]]

----------------------------------------------------------------------------
(* OptimizationEngine.evaluate: rules, score and status *)

BaseScore == 100
DuplicateCap == 10
MergeMinCount == 5
FragmentationMinMats == 10
FragmentationPenalty == 10
TextureAreaSide == 2048
OverkillSide == 4096
OverkillPenalty == 5
SmallVolume == 100000
DensityLimit == 50000
DensityMinVertices == 5000
DensityPenalty == 10
LodTriangles == 50000
OptimizedAbove == 85
ImprovableAbove == 60
VolumeUnit == 1000000

NoMetrics == [before |-> 0, after |-> 0, unit |-> "none"]

Issue(id, type, severity, count, affected, auto, action, metrics) ==
  [id |-> id, type |-> type, severity |-> severity, count |-> count,
   affectedUuids |-> affected, canAutoOptimize |-> auto, state |-> "idle",
   action |-> action, metrics |-> metrics]

\* variant with the deduction taken as 2 x count, without the cap
DuplicatePenaltyUncapped(count) == count * 2

\* Math.min(10, count * 2)
DuplicatePenalty(count) == Min2(DuplicateCap, count * 2)

\* score > 85 ? 'optimized' : score > 60 ? 'improvable' : 'heavy'
StatusOf(score) ==
  IF score > OptimizedAbove THEN "optimized"
  ELSE IF score > ImprovableAbove THEN "improvable" ELSE "heavy"

\* variant without the floor at 0
FinalScoreUnclamped(score) == score

\* Math.max(0, score)
FinalScore(score) == Max2(0, score)

\* rule 1: instancing groups keyed by geometryUuid_materialUuid, static only,
\* in Map insertion order
InstancingGroups(data) ==
  LET st == SelectSeq(data.meshDetails, LAMBDA m : m.isStatic)
      first == IdxWhere(Len(st),
                 {i \in 1..Len(st) : \A j \in 1..(i-1) :
                    <<st[j].geometryUuid, st[j].materialUuid>>
                      # <<st[i].geometryUuid, st[i].materialUuid>>})
  IN [k \in 1..Len(first) |->
        LET g == st[first[k]].geometryUuid
            m == st[first[k]].materialUuid
            members == SelectSeq(st, LAMBDA d : d.geometryUuid = g /\ d.materialUuid = m)
        IN [geometryUuid |-> g, materialUuid |-> m,
            affectedUuids |-> [i \in 1..Len(members) |-> members[i].uuid]]]

DuplicateIssues(data) ==
  LET groups == SelectSeq(InstancingGroups(data), LAMBDA g : Len(g.affectedUuids) > 1)
  IN [k \in 1..Len(groups) |->
        LET count == Len(groups[k].affectedUuids)
        IN Issue(<<"instancing", groups[k].geometryUuid, groups[k].materialUuid>>,
                 "duplicate_geometry", "high", count, groups[k].affectedUuids,
                 TRUE, "convert_to_instanced",
                 [before |-> count, after |-> 1, unit |-> "Draw Calls"])]

\* rule 2: material groups, static only
MaterialGroups(data) ==
  LET st == SelectSeq(data.meshDetails, LAMBDA m : m.isStatic)
      first == IdxWhere(Len(st),
                 {i \in 1..Len(st) :
                    \A j \in 1..(i-1) : st[j].materialUuid # st[i].materialUuid})
  IN [k \in 1..Len(first) |->
        LET m == st[first[k]].materialUuid
            members == SelectSeq(st, LAMBDA d : d.materialUuid = m)
        IN [materialUuid |-> m,
            meshUuids |-> [i \in 1..Len(members) |-> members[i].uuid]]]

MergeIssues(data) ==
  LET groups == SelectSeq(MaterialGroups(data), LAMBDA g : Len(g.meshUuids) > MergeMinCount)
  IN [k \in 1..Len(groups) |->
        LET count == Len(groups[k].meshUuids)
        IN Issue(<<"static-merge", groups[k].materialUuid, -1>>,
                 "static_merge", "medium", count, groups[k].meshUuids,
                 TRUE, "merge_static",
                 [before |-> count, after |-> 1, unit |-> "Draw Calls"])]

\* variant that looks at the ratio alone, and takes it inclusively
FragmentedByRatio(data) == 2 * Len(data.materials) >= data.meshCount

\* rule 3: uniqueMats > 10 && uniqueMats > meshCount * 0.5
Fragmented(data) ==
  /\ Len(data.materials) > FragmentationMinMats
  /\ 2 * Len(data.materials) > data.meshCount

FragmentationIssues(data) ==
  IF Fragmented(data)
  THEN <<Issue(<<"mat-fragmentation", -1, -1>>, "material_fragmentation", "medium",
               Len(data.materials), <<>>, FALSE, "none", NoMetrics)>>
  ELSE <<>>

\* variant that does not look at the volume of the meshes
OverkillUuidsAnyVolume(data, tex) ==
  LET area == tex.width * tex.height
      q == SelectSeq(data.meshDetails,
             LAMBDA m : /\ Includes(tex.affectedUuids, m.uuid)
                        /\ area >= OverkillSide * OverkillSide)
  IN IF area > TextureAreaSide * TextureAreaSide
     THEN [i \in 1..Len(q) |-> q[i].uuid]
     ELSE <<>>

\* rule 3b: texture overkill, one issue per texture with qualifying meshes
OverkillUuids(data, tex) ==
  LET area == tex.width * tex.height
      q == SelectSeq(data.meshDetails,
             LAMBDA m : /\ Includes(tex.affectedUuids, m.uuid)
                        /\ m.volume < SmallVolume
                        /\ area >= OverkillSide * OverkillSide)
  IN IF area > TextureAreaSide * TextureAreaSide
     THEN [i \in 1..Len(q) |-> q[i].uuid]
     ELSE <<>>

OverkillIssues(data) ==
  LET texs == SelectSeq(data.textures, LAMBDA t : Len(OverkillUuids(data, t)) > 0)
  IN [k \in 1..Len(texs) |->
        Issue(<<"tex-overkill", texs[k].uuid, -1>>, "texture_overkill", "medium",
              -1, OverkillUuids(data, texs[k]), FALSE, "none", NoMetrics)]

\* rule 4: vertexCount / volume > 50000 && vertexCount > 5000
\* (with the volume in 1e-6 units: vertexCount * (1e6 / 50000) > volume)
HighDensityMeshes(data) ==
  LET q == SelectSeq(data.meshDetails,
             LAMBDA m : /\ m.vertexCount * (VolumeUnit \div DensityLimit) > m.volume
                        /\ m.vertexCount > DensityMinVertices)
  IN [i \in 1..Len(q) |-> q[i].uuid]

DensityIssues(data) ==
  IF Len(HighDensityMeshes(data)) > 0
  THEN <<Issue(<<"high-density", -1, -1>>, "high_density", "medium", -1,
               HighDensityMeshes(data), FALSE, "none", NoMetrics)>>
  ELSE <<>>

\* variant of rule 6 that looks at the triangle count alone
LodCandidatesAnyMesh(data) ==
  SelectSeq(data.meshDetails, LAMBDA m : m.triangleCount3 > 3 * LodTriangles)

\* rule 6: triangleCount > 50000 && isStatic
LodCandidates(data) ==
  SelectSeq(data.meshDetails,
            LAMBDA m : m.triangleCount3 > 3 * LodTriangles /\ m.isStatic)

LodIssues(data) ==
  LET c == LodCandidates(data)
      totalTris == SumSeq([i \in 1..Len(c) |-> c[i].triangleCount3]) \div 3
  IN IF Len(c) > 0
     THEN <<Issue(<<"lod-proposal", -1, -1>>, "lod_needed", "low", -1,
                  [i \in 1..Len(c) |-> c[i].uuid], TRUE, "generate_lod",
                  [before |-> totalTris, after |-> (totalTris + 2) \div 4,
                   unit |-> "Triangles"])>>
     ELSE <<>>

\* the sum of the deductions applied to the running score
Deductions(data) ==
  LET dup == DuplicateIssues(data)
  IN SumSeq([k \in 1..Len(dup) |-> DuplicatePenalty(dup[k].count)])
     + (IF Fragmented(data) THEN FragmentationPenalty ELSE 0)
     + OverkillPenalty * Len(OverkillIssues(data))
     + (IF Len(HighDensityMeshes(data)) > 0 THEN DensityPenalty ELSE 0)

\* variant in which the level-of-detail proposal is pushed first
RuleOrderLodFirst(dup, mrg, frag, over, dens, lod) ==
  lod \o dup \o mrg \o frag \o over \o dens

\* the order of the issues.push calls: rules 1, 2, 3, 3 (textures), 4, 6
RuleOrder(dup, mrg, frag, over, dens, lod) ==
  dup \o mrg \o frag \o over \o dens \o lod

evaluate(data) ==
  LET issues == RuleOrder(DuplicateIssues(data), MergeIssues(data),
                          FragmentationIssues(data), OverkillIssues(data),
                          DensityIssues(data), LodIssues(data))
      score == BaseScore - Deductions(data)
  IN [ score |-> FinalScore(score),
       status |-> StatusOf(score),
       issues |-> issues,
       stats |-> [ instancingPotential |-> Len(DuplicateIssues(data)),
                   mergePotential |-> Len(MergeIssues(data)),
                   meshCount |-> data.meshCount,
                   drawCalls |-> data.meshCount,
                   textureVramUsage |->
                     SumSeq([i \in 1..Len(data.textures) |->
                               data.textures[i].width * data.textures[i].height * 4]),
                   geometryVramUsage |->
                     SumSeq([i \in 1..Len(data.geometries) |->
                               data.geometries[i].vertexCount * 12]) ] ]

----------------------------------------------------------------------------
(* Node and geometry allocation *)

\* uuid of the next object created (uuids are fresh; ids are never reused)
NewId(ns) == Cardinality(DOMAIN ns)

Node(kind, geometry, material, position, rotation, scale, skeleton, morphTargets) ==
  [kind |-> kind, parent |-> NoParent, children |-> <<>>,
   geometry |-> geometry, material |-> material,
   position |-> position, rotation |-> rotation, scale |-> scale,
   optimized |-> NoTag, skeleton |-> skeleton, morphTargets |-> morphTargets,
   instances |-> <<>>, levels |-> <<>>, originalMaterial |-> NoMaterial]

\* Matrix4.decompose into position / rotation / scale
WithLocal(n, m) == [n EXCEPT !.position = m.t, !.rotation = m.r, !.scale = m.s]

\* BufferGeometry.clone: a new object with copies of the buffers and the box
CloneGeometry(gs, g) == gs @@ (Cardinality(DOMAIN gs) :> gs[g])

RECURSIVE CloneNode(_, _)
RECURSIVE CloneChildren(_, _, _, _)
\* Object3D.clone(recursive = true): new uuid, no parent, same geometry and
\* material objects, userData copied, children cloned in order
CloneNode(ns, src) ==
  LET id == NewId(ns)
      copy == [ns[src] EXCEPT !.parent = NoParent, !.children = <<>>, !.levels = <<>>]
      kids == IF ns[src].kind = "LOD"
              THEN [i \in 1..Len(ns[src].levels) |-> ns[src].levels[i].object]
              ELSE ns[src].children
  IN CloneChildren(ns @@ (id :> copy), src, id, kids)
CloneChildren(ns, src, id, kids) ==
  IF kids = <<>> THEN [nodes |-> ns, id |-> id]
  ELSE LET c == CloneNode(ns, Head(kids))
           added == AddChild(c.nodes, id, c.id)
           lv == Len(added[id].levels) + 1
           withLevel ==
             IF ns[src].kind = "LOD"
             THEN [added EXCEPT ![id].levels =
                     Append(@, [distance |-> ns[src].levels[lv].distance,
                                object |-> c.id])]
             ELSE added
       IN CloneChildren(withLevel, src, id, Tail(kids))

\* variant that leaves the old meshes in the scene
RemoveNone(ns, ms) == ns

RECURSIVE RemoveAll(_, _)
\* meshes.forEach(mesh => { if (mesh.parent) mesh.parent.remove(mesh) })
RemoveAll(ns, ms) ==
  IF ms = <<>> THEN ns
  ELSE LET m == Head(ms)
       IN RemoveAll(IF ns[m].parent # NoParent
                    THEN RemoveChild(ns, ns[m].parent, m) ELSE ns,
                    Tail(ms))

\* scene.traverse(node => node instanceof Mesh && meshUuids.includes(node.uuid))
Resolve(ns, meshUuids) ==
  SelectSeq(Traverse(ns, Root),
            LAMBDA id : IsMesh(ns[id]) /\ Includes(meshUuids, id))

\* result of a call that returns null / [] and touches nothing
Failed(ns, gs, resolved) ==
  [ok |-> FALSE, created |-> <<>>, nodes |-> ns, geoms |-> gs, resolved |-> resolved]

----------------------------------------------------------------------------
(* InstancingEngine.convertToInstanced *)

\* variant that copies each mesh's own local matrix into its slot
SlotMatrixLocal(ns, parent, mesh) == LocalMatrix(ns[mesh])

\* matrix.copy(worldToLocal).multiply(mesh.matrixWorld)
SlotMatrix(ns, parent, mesh) ==
  Multiply(Invert(WorldMatrixOf(ns, parent)), WorldMatrixOf(ns, mesh))

convertToInstanced(ns, gs, meshUuids) ==
  LET meshes == Resolve(ns, meshUuids)
  IN IF Len(meshUuids) < 2 THEN Failed(ns, gs, <<>>)
     ELSE IF Len(meshes) = 0 THEN Failed(ns, gs, meshes)
     ELSE
       LET firstMesh == meshes[1]
           parent == ns[firstMesh].parent
           geometry == Cardinality(DOMAIN gs)
           id == NewId(ns)
           instancedMesh ==
             [Node("InstancedMesh", geometry, ns[firstMesh].material,
                   <<0, 0, 0>>, 0, 1, FALSE, 0)
                EXCEPT !.optimized = [type |-> "instancing",
                                      originalCount |-> Len(meshes)],
                       !.instances = [i \in 1..Len(meshes) |->
                                        SlotMatrix(ns, parent, meshes[i])]]
           attached == AddChild(ns @@ (id :> instancedMesh), parent, id)
       IN IF parent = NoParent THEN Failed(ns, gs, meshes)
          ELSE [ok |-> TRUE, created |-> <<id>>,
                nodes |-> RemoveAll(attached, meshes),
                geoms |-> CloneGeometry(gs, ns[firstMesh].geometry),
                resolved |-> meshes]

----------------------------------------------------------------------------
(* MergeEngine.mergeMeshes *)

\* BufferGeometryUtils.mergeGeometries(geometries, false) returns null unless
\* every geometry agrees with the first one on being indexed and on its
\* attribute names
Mergeable(gseq) ==
  \A i \in 1..Len(gseq) :
     /\ (gseq[i].index >= 0) = (gseq[1].index >= 0)
     /\ gseq[i].attrs = gseq[1].attrs

RECURSIVE ConcatPositions(_)
ConcatPositions(gseq) ==
  IF gseq = <<>> THEN <<>>
  ELSE Head(gseq).position \o ConcatPositions(Tail(gseq))

\* the merged BufferGeometry: attributes concatenated, index counts added up,
\* no bounding box computed yet
MergeGeometries(gseq) ==
  [attrs |-> gseq[1].attrs,
   position |-> ConcatPositions(gseq),
   index |-> IF gseq[1].index >= 0
             THEN SumSeq([i \in 1..Len(gseq) |-> gseq[i].index]) ELSE -1,
   boundingBox |-> NoBox]

\* variant that merges the geometries without baking the world matrices
BakedGeometryUnbaked(ns, gs, mesh) == gs[ns[mesh].geometry]

\* geom = mesh.geometry.clone(); geom.applyMatrix4(mesh.matrixWorld)
BakedGeometry(ns, gs, mesh) ==
  ApplyMatrixToGeometry(gs[ns[mesh].geometry], WorldMatrixOf(ns, mesh))

\* variant that bakes the world matrix into the mesh's own geometry object
BakeTargetInPlace(original, clone) == original

\* const geom = mesh.geometry.clone(): the object applyMatrix4 is called on
BakeTarget(original, clone) == clone

RECURSIVE BakeAll(_, _, _)
\* meshes.forEach(mesh => { clone; bake; geometries.push(geom) }): the
\* geometry objects as the loop leaves them, and the objects pushed
BakeAll(ns, gs, meshes) ==
  IF meshes = <<>> THEN [geoms |-> gs, pushed |-> <<>>]
  ELSE LET mesh == Head(meshes)
           clone == Cardinality(DOMAIN gs)
           cloned == CloneGeometry(gs, ns[mesh].geometry)
           geom == BakeTarget(ns[mesh].geometry, clone)
           baked == [cloned EXCEPT ![geom] = BakedGeometry(ns, cloned, mesh)]
           rest == BakeAll(ns, baked, Tail(meshes))
       IN [geoms |-> rest.geoms, pushed |-> <<geom>> \o rest.pushed]

\* variant in which the originals are detached before the merge is attempted
MergeFailureAfterRemoval(ns, gs, meshes) == Failed(RemoveAll(ns, meshes), gs, meshes)

\* if (!mergedGeometry) return null  /  catch (error) { return null }
\* (the baked clones are garbage: no node refers to them)
MergeFailure(ns, gs, meshes) == Failed(ns, gs, meshes)

mergeMeshes(ns, gs, meshUuids) ==
  LET meshes == Resolve(ns, meshUuids)
  IN IF Len(meshUuids) < 2 THEN Failed(ns, gs, <<>>)
     ELSE IF Len(meshes) = 0 THEN Failed(ns, gs, meshes)
     ELSE
       LET parent == IF ns[meshes[1]].parent # NoParent
                     THEN ns[meshes[1]].parent ELSE Root
           baked == BakeAll(ns, gs, meshes)
           geometries == [i \in 1..Len(meshes) |-> baked.geoms[baked.pushed[i]]]
           \* the geometry objects that existed before the call; the baked
           \* clones are garbage once merged
           kept == [g \in DOMAIN gs |-> baked.geoms[g]]
           geometry == Cardinality(DOMAIN gs)
           id == NewId(ns)
           mergedMesh ==
             [WithLocal(Node("Mesh", geometry, ns[meshes[1]].material,
                             <<0, 0, 0>>, 0, 1, FALSE, 0),
                        Multiply(Invert(WorldMatrixOf(ns, parent)), Identity))
                EXCEPT !.optimized = [type |-> "merge",
                                      originalCount |-> Len(meshUuids)]]
           attached == AddChild(ns @@ (id :> mergedMesh), parent, id)
       IN IF ~Mergeable(geometries) THEN MergeFailure(ns, kept, meshes)
          ELSE [ok |-> TRUE, created |-> <<id>>,
                nodes |-> RemoveAll(attached, meshes),
                geoms |-> kept @@ (geometry :> MergeGeometries(geometries)),
                resolved |-> meshes]

----------------------------------------------------------------------------
(* LODEngine.generateLOD and generateLODForBatch *)

LodDistance1 == 15
LodDistance2 == 40

\* LOD.addLevel(object, distance): keep levels sorted by distance, add child
AddLevel(ns, lod, object, distance) ==
  LET lv == ns[lod].levels
      before == SelectSeq(lv, LAMBDA l : l.distance <= distance)
      after == SelectSeq(lv, LAMBDA l : l.distance > distance)
      withLevel == [ns EXCEPT ![lod].levels =
                      before \o <<[distance |-> distance, object |-> object]>> \o after]
  IN AddChild(withLevel, lod, object)

\* variant that leaves the clone with the placement of the original
ResetLocalKept(n) == n

\* highDetail.position.set(0, 0, 0); rotation.set(0, 0, 0); scale.set(1, 1, 1)
ResetLocal(n) == WithLocal(n, Identity)

generateLOD(ns, gs, meshUuid) ==
  LET found == SelectSeq(Traverse(ns, Root),
                         LAMBDA id : IsMesh(ns[id]) /\ id = meshUuid)
  IN IF Len(found) = 0 THEN Failed(ns, gs, <<>>)
     ELSE
       LET targetMesh == found[Len(found)]
           parent == ns[targetMesh].parent
           lod == NewId(ns)
           lodNode == [Node("LOD", NoGeometry, NoMaterial,
                            ns[targetMesh].position, ns[targetMesh].rotation,
                            ns[targetMesh].scale, FALSE, 0)
                         EXCEPT !.optimized = [type |-> "lod", originalCount |-> 0]]
           ns1 == ns @@ (lod :> lodNode)
           high == CloneNode(ns1, targetMesh)
           ns2 == [high.nodes EXCEPT ![high.id] = ResetLocal(@)]
           ns3 == AddLevel(ns2, lod, high.id, 0)
           med == CloneNode(ns3, high.id)
           ns4 == AddLevel(med.nodes, lod, med.id, LodDistance1)
           low == CloneNode(ns4, high.id)
           ns5 == AddLevel(low.nodes, lod, low.id, LodDistance2)
           ns6 == AddChild(ns5, parent, lod)
       IN IF parent = NoParent THEN Failed(ns, gs, found)
          ELSE [ok |-> TRUE, created |-> <<lod>>,
                nodes |-> RemoveChild(ns6, parent, targetMesh),
                geoms |-> gs, resolved |-> found]

\* variant that gives up at the first id whose conversion fails
RestAfterStopping(one, uuids) == IF one.ok THEN uuids ELSE <<>>

\* forEach goes on to the next uuid whatever generateLOD returned
RestAfter(one, uuids) == uuids

RECURSIVE generateLODForBatch(_, _, _)
\* meshUuids.forEach(uuid => { lod = generateLOD(scene, uuid); if (lod) push })
generateLODForBatch(ns, gs, meshUuids) ==
  IF meshUuids = <<>> THEN Failed(ns, gs, <<>>)
  ELSE LET one == generateLOD(ns, gs, Head(meshUuids))
           rest == generateLODForBatch(one.nodes, one.geoms,
                                       RestAfter(one, Tail(meshUuids)))
           created == one.created \o rest.created
       IN [ok |-> Len(created) > 0, created |-> created,
           nodes |-> rest.nodes, geoms |-> rest.geoms,
           resolved |-> (IF one.ok THEN one.resolved ELSE <<>>) \o rest.resolved]

----------------------------------------------------------------------------
(* The loaded asset: a root Group (gltf.scene / the OBJLoader group), one   *)
(* inner Group with its own placement, and 0 to MaxMeshes meshes.           *)

Geom(attrs, position, index) ==
  [attrs |-> attrs, position |-> position, index |-> index, boundingBox |-> NoBox]

Run(p, n) == [p |-> p, n |-> n]

\* 0: unit cube, 1: flat patch, 2: indexed patch with uvs, 3: high-poly block,
\* 4: small over-tessellated block, 5: block of volume 0.05, 6: block of
\* volume 0.1
LoadedGeometries ==
  <<Geom({"position", "normal"},
         <<Run(<<0, 0, 0>>, 3), Run(<<100, 100, 100>>, 3)>>, -1),
    Geom({"position", "normal"},
         <<Run(<<0, 0, 0>>, 3), Run(<<10, 20, 0>>, 3)>>, -1),
    Geom({"position", "normal", "uv"},
         <<Run(<<0, 0, 0>>, 2), Run(<<50, 50, 50>>, 2)>>, 6),
    Geom({"position", "normal"},
         <<Run(<<0, 0, 0>>, 90000), Run(<<200, 200, 200>>, 90000)>>, -1),
    Geom({"position", "normal"},
         <<Run(<<0, 0, 0>>, 3000), Run(<<10, 10, 10>>, 3000)>>, -1),
    Geom({"position", "normal"},
         <<Run(<<0, 0, 0>>, 3), Run(<<50, 10, 100>>, 3)>>, -1),
    Geom({"position", "normal"},
         <<Run(<<0, 0, 0>>, 3), Run(<<100, 100, 10>>, 3)>>, -1)>>

InitGeoms == [g \in 0..(Len(LoadedGeometries) - 1) |-> LoadedGeometries[g + 1]]

\* the kinds of mesh the asset may hold: geometry, material, skinned or not
Looks ==
  <<[geometry |-> 0, material |-> 0, skeleton |-> FALSE],
    [geometry |-> 1, material |-> 0, skeleton |-> FALSE],
    [geometry |-> 2, material |-> 0, skeleton |-> FALSE],
    [geometry |-> 3, material |-> 1, skeleton |-> FALSE],
    [geometry |-> 0, material |-> 0, skeleton |-> TRUE]>>

InnerGroup == 1
FirstMesh == 2
Ghost == 99

\* mesh i sits under the root when i is odd and under the inner group when
\* i is even; every mesh has its own placement
ParentOfMesh(i) == IF i % 2 = 1 THEN Root ELSE InnerGroup

LoadedScene(n, look) ==
  LET meshIds == [i \in 1..n |-> FirstMesh + i - 1]
      under(p) == SelectSeq(meshIds, LAMBDA id : ParentOfMesh(id - FirstMesh + 1) = p)
  IN [id \in 0..(n + 1) |->
        IF id = Root
        THEN [Node("Group", NoGeometry, NoMaterial, <<0, 0, 0>>, 0, 1, FALSE, 0)
                EXCEPT !.children = <<InnerGroup>> \o under(Root)]
        ELSE IF id = InnerGroup
        THEN [Node("Group", NoGeometry, NoMaterial, <<5, 7, 0>>, 1, 1, FALSE, 0)
                EXCEPT !.parent = Root, !.children = under(InnerGroup)]
        ELSE LET i == id - FirstMesh + 1
                 l == Looks[look[i]]
             IN [Node("Mesh", l.geometry, l.material,
                      <<10 * i, 0, i>>, i % 4, IF i % 2 = 0 THEN -1 ELSE 1,
                      l.skeleton, 0)
                   EXCEPT !.parent = ParentOfMesh(i)]]

NoData == [meshCount |-> 0, geometries |-> <<>>, materials |-> <<>>,
           textures |-> <<>>, meshDetails |-> <<>>]

NoReport == [score |-> -1, status |-> "none", issues |-> <<>>,
             stats |-> [instancingPotential |-> 0, mergePotential |-> 0,
                        meshCount |-> 0, drawCalls |-> 0,
                        textureVramUsage |-> 0, geometryVramUsage |-> 0]]

NoCall == [op |-> "none", ids |-> <<>>, ok |-> FALSE, created |-> <<>>,
           resolved |-> <<>>, pre |-> <<>>, preGeoms |-> <<>>]

\* no transform call is in progress
IdleCall == [pc |-> "idle", op |-> "none", ids |-> <<>>, node |-> -1, parent |-> -1,
             pending |-> <<>>, resolved |-> <<>>, pre |-> <<>>, preGeoms |-> <<>>]

\* page.tsx useState initial values; ModelViewer's model is null until loaded
NoHost == [model |-> FALSE, analysisRefreshKey |-> 0, sceneVersion |-> 1,
           appliedIssueIds |-> {}, dismissedIssueIds |-> {},
           optimizationHistory |-> <<>>, hidden |-> {}]

\* no timer has been created yet
NoSched == [timers |-> {}, effectTimer |-> -1, created |-> 0]

\* events: host events so far; runs, elapsed: pipeline runs and time since the
\* hook's effect last ran; burst: how many effect runs in a row came while the
\* window of the one before was open; awaiting: the scene-mutating event after
\* which no report has been published yet; handler: the host handler that ran
\* last; issue: the issue handed to handleOptimize; applied: the issues
\* (id and node set) for which handleOptimize got a result
NoObs == [events |-> 0, runs |-> 0, elapsed |-> 0, burst |-> 0,
          awaiting |-> "none", handler |-> "none", issue |-> <<>>,
          applied |-> {}]

\* the parts of the state that the transforms and the analysis do not touch
HostAtRest ==
  /\ call = IdleCall
  /\ host = NoHost
  /\ sched = NoSched
  /\ obs = NoObs

Init ==
  /\ \E n \in 0..MaxMeshes :
       \E look \in [1..n -> 1..Len(Looks)] :
          /\ \A i \in 1..(n - 1) : look[i] <= look[i + 1]
          /\ nodes = LoadedScene(n, look)
  /\ geoms = InitGeoms
  /\ rawData = NoData
  /\ report = NoReport
  /\ passes = 0
  /\ last = NoCall
  /\ ops = 0
  /\ HostAtRest

----------------------------------------------------------------------------
(* Operations *)

\* useSceneIntelligence timer body: analyze, evaluate, publish the report
Analyze ==
  /\ rawData' = analyze(nodes, geoms)
  /\ geoms' = analyzeGeoms(nodes, geoms)
  /\ report' = evaluate(rawData')
  /\ passes' = Min2(passes + 1, 2)
  /\ UNCHANGED <<nodes, last, ops, hostVars>>

\* effect of a transform call on the scene, with the call recorded in `last`
Apply(op, ids, res) ==
  /\ nodes' = res.nodes
  /\ geoms' = res.geoms
  /\ last' = [op |-> op, ids |-> ids, ok |-> res.ok, created |-> res.created,
              resolved |-> res.resolved, pre |-> nodes, preGeoms |-> geoms]
  /\ ops' = ops + 1
  /\ passes' = IF res.nodes = nodes THEN passes ELSE 0
  /\ UNCHANGED <<rawData, report, hostVars>>

ConvertToInstanced(ids) ==
  /\ ops < MaxOps
  /\ Apply("convert_to_instanced", ids, convertToInstanced(nodes, geoms, ids))

MergeMeshes(ids) ==
  /\ ops < MaxOps
  /\ Apply("merge_static", ids, mergeMeshes(nodes, geoms, ids))

GenerateLOD(id) ==
  /\ ops < MaxOps
  /\ Apply("generate_lod_one", <<id>>, generateLOD(nodes, geoms, id))

GenerateLODForBatch(ids) ==
  /\ ops < MaxOps
  /\ Apply("generate_lod", ids, generateLODForBatch(nodes, geoms, ids))

----------------------------------------------------------------------------
(* Spec: the pipeline as the host drives it.  A report is published, the    *)
(* caller hands the affected list of one of its issues to a transform, and  *)
(* the analysis runs again.                                                 *)

IssueLists ==
  {report.issues[i].affectedUuids :
     i \in {j \in 1..Len(report.issues) : report.issues[j].canAutoOptimize}}

Next ==
  \/ Analyze
  \/ \E ids \in IssueLists : ConvertToInstanced(ids)
  \/ \E ids \in IssueLists : MergeMeshes(ids)
  \/ \E ids \in IssueLists : GenerateLODForBatch(ids)

Spec == Init /\ [][Next]_vars

----------------------------------------------------------------------------
(* SpecCalls: the transforms called directly with short id lists (in        *)
(* ascending id order, which is not the traversal order) over the loaded    *)
(* meshes still in the scene and an id that names no node.                  *)

LiveMeshIds ==
  {id \in FirstMesh..(FirstMesh + MaxMeshes - 1) :
     id \in DOMAIN nodes /\ id \in Reachable(nodes)}

FirstLive == CHOOSE id \in LiveMeshIds : \A o \in LiveMeshIds : id <= o

ShortLists ==
  IF LiveMeshIds = {} THEN {<<Ghost, Ghost>>}
  ELSE {<<FirstLive>>, <<FirstLive, Ghost>>, <<Ghost, Ghost>>}

CallerLists ==
  {<<p[1], p[2]>> : p \in {q \in LiveMeshIds \X LiveMeshIds : q[1] < q[2]}}
  \cup {[i \in 1..MaxMeshes |-> FirstMesh + i - 1]}
  \cup ShortLists

LastLive == CHOOSE id \in LiveMeshIds : \A o \in LiveMeshIds : id >= o

BatchLists ==
  IF LiveMeshIds = {} THEN {<<Ghost, Ghost>>}
  ELSE {<<Ghost, FirstLive>>, <<Ghost, Ghost>>, <<LastLive, Ghost, FirstLive>>}

NextCalls ==
  \/ \E ids \in CallerLists : ConvertToInstanced(ids)
  \/ \E ids \in CallerLists : MergeMeshes(ids)
  \/ \E id \in LiveMeshIds \cup {Ghost} : GenerateLOD(id)
  \/ \E ids \in BatchLists : GenerateLODForBatch(ids)

SpecCalls == Init /\ [][NextCalls]_vars

----------------------------------------------------------------------------
(* Observations shared by the properties *)

\* what the fail-soft contract compares: reachable nodes, parent/child
\* relation and child order, provenance tags, geometry and material references
SceneView(ns) ==
  [id \in Reachable(ns) |->
     [parent |-> ns[id].parent, children |-> ns[id].children,
      optimized |-> ns[id].optimized, geometry |-> ns[id].geometry,
      material |-> ns[id].material]]

\* the nodes the last call resolved, recomputed from the scene before the call
ResolvedBefore == Resolve(last.pre, last.ids)

\* nodes reachable now that were not reachable before the last call
AddedNodes == Reachable(nodes) \ Reachable(last.pre)

StaticMeshBefore(id) ==
  /\ last.pre[id].kind = "Mesh"
  /\ ~IsOptimized(last.pre[id])
  /\ IsStatic(last.pre[id])

\* the world-space vertex runs a mesh node draws
WorldRuns(ns, gs, id) ==
  LET pos == gs[ns[id].geometry].position
      w == WorldMatrixOf(ns, id)
  IN [i \in 1..Len(pos) |-> [p |-> ApplyMat(w, pos[i].p), n |-> pos[i].n]]

RECURSIVE WorldRunsOfAll(_, _, _)
WorldRunsOfAll(ns, gs, ids) ==
  IF ids = <<>> THEN <<>>
  ELSE WorldRuns(ns, gs, Head(ids)) \o WorldRunsOfAll(ns, gs, Tail(ids))

----------------------------------------------------------------------------
(* Properties of the transforms, checked under SpecCalls *)

InstancingCase ==
  /\ last.op = "convert_to_instanced"
  /\ Len(ResolvedBefore) >= 2
  /\ \A i \in 1..Len(ResolvedBefore) :
        /\ StaticMeshBefore(ResolvedBefore[i])
        /\ last.pre[ResolvedBefore[i]].parent # NoParent
        /\ last.pre[ResolvedBefore[i]].geometry = last.pre[ResolvedBefore[1]].geometry
        /\ last.pre[ResolvedBefore[i]].material = last.pre[ResolvedBefore[1]].material

\* C3: instancing correctness.  A call that resolves N >= 2 static meshes
\* sharing geometry and material adds exactly one instanced node, with N
\* slots, under the parent of the first resolved node, and the world
\* transform of slot i is the world transform that the i-th resolved node (in
\* traversal order) had before the call.
C3_InstancingCorrectness ==
  InstancingCase =>
    /\ last.ok
    /\ \E c \in AddedNodes :
         /\ AddedNodes = {c}
         /\ last.created = <<c>>
         /\ nodes[c].kind = "InstancedMesh"
         /\ nodes[c].parent = last.pre[ResolvedBefore[1]].parent
         /\ Len(nodes[c].instances) = Len(ResolvedBefore)
         /\ \A i \in 1..Len(ResolvedBefore) :
              Multiply(WorldMatrixOf(nodes, c), nodes[c].instances[i])
                = WorldMatrixOf(last.pre, ResolvedBefore[i])

\* an instancing call on meshes under different parents, whose ids were
\* supplied in an order other than the traversal order
C3_Witness ==
  /\ InstancingCase
  /\ last.ok
  /\ last.ids # ResolvedBefore
  /\ \E i \in 1..Len(ResolvedBefore) :
        last.pre[ResolvedBefore[i]].parent # last.pre[ResolvedBefore[1]].parent

SameLayout(g, h) == (g.index >= 0) = (h.index >= 0) /\ g.attrs = h.attrs

MergeCase ==
  /\ last.op = "merge_static"
  /\ Len(ResolvedBefore) >= 2
  /\ \A i \in 1..Len(ResolvedBefore) :
        /\ StaticMeshBefore(ResolvedBefore[i])
        /\ last.pre[ResolvedBefore[i]].material = last.pre[ResolvedBefore[1]].material
        /\ SameLayout(last.preGeoms[last.pre[ResolvedBefore[i]].geometry],
                      last.preGeoms[last.pre[ResolvedBefore[1]].geometry])

C5_FailSoft ==
  (last.op # "none" /\ ~last.ok) => SceneView(nodes) = SceneView(last.pre)

\* a merge that resolved two meshes and failed on incompatible layouts
C5_Witness ==
  /\ last.op = "merge_static"
  /\ ~last.ok
  /\ Len(ResolvedBefore) >= 2
  /\ \E i \in 1..Len(ResolvedBefore) :
        ~SameLayout(last.preGeoms[last.pre[ResolvedBefore[i]].geometry],
                    last.preGeoms[last.pre[ResolvedBefore[1]].geometry])

\* C6: minimum resolved count.  convertToInstanced and mergeMeshes fail and
\* leave the scene unchanged whenever fewer than 2 of the supplied ids
\* resolve to live mesh nodes.
C6_MinimumResolvedCount ==
  (/\ last.op \in {"convert_to_instanced", "merge_static"}
   /\ Len(ResolvedBefore) < 2)
    => (~last.ok /\ SceneView(nodes) = SceneView(last.pre))

----------------------------------------------------------------------------
(* Properties of the analysis pipeline, checked under Spec *)

SameFindings(r1, r2) ==
  /\ r1.score = r2.score
  /\ Len(r1.issues) = Len(r2.issues)
  /\ \A i \in 1..Len(r1.issues) :
        /\ r1.issues[i].id = r2.issues[i].id
        /\ r1.issues[i].affectedUuids = r2.issues[i].affectedUuids

\* C1: detection idempotence.  An analysis pass that follows another pass
\* with no change of the scene in between publishes the same issue ids in
\* the same order, the same affected lists and the same score.
C1_DetectionIdempotence ==
  [][(passes >= 1 /\ UNCHANGED <<nodes, last, ops>>)
       => SameFindings(report, report')]_vars

\* two consecutive passes over an unchanged scene that has findings
C1_Witness == passes = 2 /\ Len(report.issues) > 0

\* every node id the last analysis pass put into a fact or an issue
AnalysisIds ==
  UNION ({ {rawData.meshDetails[i].uuid} : i \in 1..Len(rawData.meshDetails) }
         \cup { Range(rawData.geometries[i].affectedUuids) : i \in 1..Len(rawData.geometries) }
         \cup { Range(rawData.materials[i].affectedUuids) : i \in 1..Len(rawData.materials) }
         \cup { Range(rawData.textures[i].affectedUuids) : i \in 1..Len(rawData.textures) }
         \cup { Range(report.issues[i].affectedUuids) : i \in 1..Len(report.issues) })

\* C2: post-transform stability.  After a successful transform, whatever
\* transforms and analysis passes follow, no mesh fact and no affected list
\* holds the id of a node that carries a provenance tag.
C2_PostTransformStability ==
  ops >= 1 => \A id \in AnalysisIds : ~IsOptimized(nodes[id])

\* an analysis pass that found meshes in a scene holding a tagged mesh node
C2_Witness ==
  /\ ops >= 1
  /\ passes >= 1
  /\ rawData.meshCount > 0
  /\ \E id \in Reachable(nodes) : IsMesh(nodes[id]) /\ IsOptimized(nodes[id])

RECURSIVE InsideTagged(_, _)
\* the node or one of its ancestors carries a provenance tag
InsideTagged(ns, id) ==
  \/ IsOptimized(ns[id])
  \/ (ns[id].parent # NoParent /\ InsideTagged(ns, ns[id].parent))

\* C7: provenance exclusion prevents re-flagging.  Content that a transform
\* has converted (a tagged node and what it holds, such as the levels of a
\* LOD container) yields no mesh fact and appears in no issue of a later pass.
C7_ProvenanceExclusion ==
  passes >= 1 => \A id \in AnalysisIds : ~InsideTagged(nodes, id)

SceneMeshes(ns) == {id \in Reachable(ns) : IsMesh(ns[id])}

\* all the meshes of the scene are N >= 2 static meshes on one geometry and
\* one material
OneGroupScene(ns) ==
  /\ Cardinality(SceneMeshes(ns)) >= 2
  /\ \A a \in SceneMeshes(ns) :
        /\ ns[a].kind = "Mesh" /\ ~IsOptimized(ns[a]) /\ IsStatic(ns[a])
        /\ \A b \in SceneMeshes(ns) :
              ns[a].geometry = ns[b].geometry /\ ns[a].material = ns[b].material

DuplicateIssuesOf(r) == SelectSeq(r.issues, LAMBDA i : i.type = "duplicate_geometry")

\* C8: duplicate-geometry detection and its remedy.  For a scene whose
\* meshes are N >= 2 static meshes sharing geometry and material the report
\* holds exactly one duplicate_geometry issue (count N, those N ids, metrics
\* N -> 1 draw calls), and convertToInstanced on that list leaves exactly one
\* instanced node and none of the originals.
C8_DuplicateDetectionAndRemedy ==
  /\ (passes >= 1 /\ OneGroupScene(nodes)) =>
        LET d == DuplicateIssuesOf(report)
            n == Cardinality(SceneMeshes(nodes))
        IN /\ Len(d) = 1
           /\ d[1].count = n
           /\ Len(d[1].affectedUuids) = n
           /\ Range(d[1].affectedUuids) = SceneMeshes(nodes)
           /\ d[1].metrics = [before |-> n, after |-> 1, unit |-> "Draw Calls"]
  /\ (/\ last.op = "convert_to_instanced"
      /\ OneGroupScene(last.pre)
      /\ Range(last.ids) = SceneMeshes(last.pre)
      /\ Len(last.ids) = Cardinality(SceneMeshes(last.pre))) =>
        /\ Cardinality({id \in Reachable(nodes) : nodes[id].kind = "InstancedMesh"}) = 1
        /\ SceneMeshes(last.pre) \cap Reachable(nodes) = {}

\* the duplicate issue of a three-mesh group has been applied
C8_Witness ==
  /\ last.op = "convert_to_instanced"
  /\ last.ok
  /\ OneGroupScene(last.pre)
  /\ Cardinality(SceneMeshes(last.pre)) >= 3
  /\ Len(DuplicateIssuesOf(report)) = 1
  /\ DuplicateIssuesOf(report)[1].affectedUuids = last.ids

----------------------------------------------------------------------------
(* Properties of the geometry buffers, checked under SpecCalls *)

\* the vertex data of a geometry object: attributes, positions, index
VertexData(g) == [attrs |-> g.attrs, position |-> g.position, index |-> g.index]

TransformOps ==
  {"convert_to_instanced", "merge_static", "generate_lod_one", "generate_lod"}

\* geometries of meshes that are in the scene after the call and were not
\* resolved by it
GeometriesOutside ==
  {nodes[id].geometry :
     id \in {n \in Reachable(nodes) \cap DOMAIN last.pre :
               IsMesh(nodes[n]) /\ ~Includes(last.resolved, n)}}

\* C17: clone before bake.  No transform modifies the vertex data of a
\* geometry object that existed before the call: a geometry shared with a
\* mesh outside the merged set, or still referenced by the originals after a
\* failed merge, has the same vertex data after the call as before it.
C17_CloneBeforeBake ==
  last.op \in TransformOps =>
    /\ DOMAIN last.preGeoms \subseteq DOMAIN geoms
    /\ \A g \in DOMAIN last.preGeoms :
          VertexData(geoms[g]) = VertexData(last.preGeoms[g])

\* a merge of two placed meshes whose geometry a third, surviving mesh uses
C17_Witness ==
  /\ last.op = "merge_static"
  /\ last.ok
  /\ Len(last.resolved) >= 2
  /\ \A i \in 1..Len(last.resolved) :
        WorldMatrixOf(last.pre, last.resolved[i]) # Identity
  /\ \E i \in 1..Len(last.resolved) :
        last.pre[last.resolved[i]].geometry \in GeometriesOutside
  /\ geoms[nodes[last.created[1]].geometry].position
       # last.preGeoms[last.pre[last.resolved[1]].geometry].position

\* a failed merge of placed meshes: the originals keep their vertex data
MergeFailedAfterBake ==
  /\ last.op = "merge_static"
  /\ ~last.ok
  /\ Len(last.resolved) >= 2
  /\ last.resolved[1] \in Reachable(nodes)
  /\ WorldMatrixOf(last.pre, last.resolved[1]) # Identity

----------------------------------------------------------------------------
(* Properties of the level-of-detail transform, checked under SpecCalls *)

LodCase == last.op = "generate_lod_one" /\ last.ok

\* the mesh handed to the call, its parent, and the container returned
LodTarget == last.ids[1]
LodParent == last.pre[LodTarget].parent
LodContainer == last.created[1]

\* C18: LOD transform result.  After a successful generateLOD on mesh m with
\* parent p, m is no longer a child of p; p has one new child, an LOD
\* container tagged 'lod' with m's local position, rotation and scale; the
\* container holds exactly three levels at distances 0, 15 and 40 in that
\* order; the level-0 object is a clone of m with identity local transform,
\* and its world transform is m's world transform before the call.
C18_LodTransformResult ==
  LodCase =>
    /\ Len(last.created) = 1
    /\ ~Includes(nodes[LodParent].children, LodTarget)
    /\ Range(nodes[LodParent].children)
         = (Range(last.pre[LodParent].children) \ {LodTarget}) \cup {LodContainer}
    /\ LodContainer \notin DOMAIN last.pre
    /\ nodes[LodContainer].parent = LodParent
    /\ nodes[LodContainer].kind = "LOD"
    /\ nodes[LodContainer].optimized # NoTag
    /\ nodes[LodContainer].optimized.type = "lod"
    /\ nodes[LodContainer].position = last.pre[LodTarget].position
    /\ nodes[LodContainer].rotation = last.pre[LodTarget].rotation
    /\ nodes[LodContainer].scale = last.pre[LodTarget].scale
    /\ Len(nodes[LodContainer].levels) = 3
    /\ [i \in 1..3 |-> nodes[LodContainer].levels[i].distance] = <<0, 15, 40>>
    /\ LET high == nodes[LodContainer].levels[1].object
       IN /\ high \notin DOMAIN last.pre
          /\ nodes[high].parent = LodContainer
          /\ nodes[high].kind = last.pre[LodTarget].kind
          /\ nodes[high].optimized = last.pre[LodTarget].optimized
          /\ nodes[high].geometry = last.pre[LodTarget].geometry
          /\ nodes[high].material = last.pre[LodTarget].material
          /\ nodes[high].position = <<0, 0, 0>>
          /\ nodes[high].rotation = 0
          /\ nodes[high].scale = 1
          /\ WorldMatrixOf(nodes, high) = WorldMatrixOf(last.pre, LodTarget)

\* a mesh with a placement of its own, under the placed inner group
C18_Witness ==
  /\ LodCase
  /\ LodParent = InnerGroup
  /\ LocalMatrix(last.pre[LodTarget]) # Identity
  /\ WorldMatrixOf(last.pre, LodTarget) # LocalMatrix(last.pre[LodTarget])
  /\ LodContainer \in Reachable(nodes)
  /\ LodTarget \notin Reachable(nodes)

\* the positions in the supplied list whose id is a mesh of the scene at
\* its turn: a mesh reachable before the call and not supplied earlier
FoundAtItsTurn(i) ==
  /\ last.ids[i] \in Reachable(last.pre)
  /\ IsMesh(last.pre[last.ids[i]])
  /\ last.pre[last.ids[i]].parent # NoParent
  /\ \A j \in 1..(i - 1) : last.ids[j] # last.ids[i]

BatchSucceeded == IdxWhere(Len(last.ids), {i \in 1..Len(last.ids) : FoundAtItsTurn(i)})

SuppliedTwice ==
  /\ last.op = "generate_lod"
  /\ Len(last.ids) = 3
  /\ last.ids[1] = last.ids[3]
  /\ Len(last.created) = 1

----------------------------------------------------------------------------
(* SpecScore: scoring of flat assets.  The asset holds nOver small meshes   *)
(* with a 4K texture each, an over-tessellated mesh, a plain mesh, and      *)
(* gains groups of k meshes sharing one geometry and one new material.      *)

DenseMaterial == 50
PlainMaterial == 51
FirstGroupMaterial == 1000

FlatMesh(geometry, material) ==
  [Node("Mesh", geometry, material, <<0, 0, 0>>, 0, 1, FALSE, 0)
     EXCEPT !.parent = Root]

ScoreScene(nOver, nDense, nPlain) ==
  LET n == nOver + nDense + nPlain
  IN [id \in 0..n |->
        IF id = Root
        THEN [Node("Group", NoGeometry, NoMaterial, <<0, 0, 0>>, 0, 1, FALSE, 0)
                EXCEPT !.children = [i \in 1..n |-> i]]
        ELSE IF id <= nOver THEN FlatMesh(1, FirstTexturedMaterial + id)
        ELSE IF id <= nOver + nDense THEN FlatMesh(4, DenseMaterial)
        ELSE FlatMesh(0, PlainMaterial)]

\* the kinds of textured mesh: geometry and material
TexturedLooks ==
  <<[geometry |-> 5, material |-> 1],
    [geometry |-> 0, material |-> 1],
    [geometry |-> 6, material |-> 1],
    [geometry |-> 5, material |-> 2],
    [geometry |-> 5, material |-> 3],
    [geometry |-> 5, material |-> 4]>>

\* an asset of n textured meshes under the root
TexturedScene(n, look) ==
  [id \in 0..n |->
     IF id = Root
     THEN [Node("Group", NoGeometry, NoMaterial, <<0, 0, 0>>, 0, 1, FALSE, 0)
             EXCEPT !.children = [i \in 1..n |-> i]]
     ELSE FlatMesh(TexturedLooks[look[id]].geometry, TexturedLooks[look[id]].material)]

\* the kinds of mesh of a rigged asset: skinned cube, cube with two morph
\* targets, skinned high-poly block, high-poly block with one morph target,
\* static high-poly block
RiggedMaterial == 60
RiggedLooks ==
  <<[geometry |-> 0, skeleton |-> TRUE, morphTargets |-> 0],
    [geometry |-> 0, skeleton |-> FALSE, morphTargets |-> 2],
    [geometry |-> 3, skeleton |-> TRUE, morphTargets |-> 0],
    [geometry |-> 3, skeleton |-> FALSE, morphTargets |-> 1],
    [geometry |-> 3, skeleton |-> FALSE, morphTargets |-> 0]>>

\* an asset of nStatic static cubes and the meshes of look, all under the
\* root and all with one material
RiggedScene(nStatic, look) ==
  LET n == nStatic + Len(look)
  IN [id \in 0..n |->
        IF id = Root
        THEN [Node("Group", NoGeometry, NoMaterial, <<0, 0, 0>>, 0, 1, FALSE, 0)
                EXCEPT !.children = [i \in 1..n |-> i]]
        ELSE IF id <= nStatic THEN FlatMesh(0, RiggedMaterial)
        ELSE LET l == RiggedLooks[look[id - nStatic]]
             IN [FlatMesh(l.geometry, RiggedMaterial)
                   EXCEPT !.skeleton = l.skeleton, !.morphTargets = l.morphTargets]]

InitScore ==
  /\ \E nOver \in {0, 1, 6, MaxTextured} : \E nDense \in 0..1 : \E nPlain \in 0..1 :
        nodes = ScoreScene(nOver, nDense, nPlain)
  /\ geoms = InitGeoms
  /\ rawData = NoData
  /\ report = NoReport
  /\ passes = 0
  /\ last = NoCall
  /\ ops = 0
  /\ HostAtRest

GroupsLoaded(ns) ==
  Cardinality({ns[id].material : id \in DOMAIN ns} \cap
              {m \in FirstGroupMaterial..(FirstGroupMaterial + NewId(ns)) : TRUE})

\* the asset gains k meshes on the unit cube and one new material
LoadGroup(k) ==
  /\ GroupsLoaded(nodes) < MaxGroups
  /\ LET first == NewId(nodes)
         ids == [i \in 1..k |-> first + i - 1]
         material == FirstGroupMaterial + first
         added == [id \in 0..(first + k - 1) |->
                     IF id < first THEN nodes[id] ELSE FlatMesh(0, material)]
     IN /\ nodes' = [added EXCEPT ![Root].children = @ \o ids]
        /\ last' = [op |-> "load_group", ids |-> ids, ok |-> TRUE, created |-> ids,
                    resolved |-> <<>>, pre |-> nodes, preGeoms |-> geoms]
  /\ passes' = 0
  /\ UNCHANGED <<geoms, rawData, report, ops, hostVars>>

NextScore ==
  \/ Analyze
  \/ \E k \in 2..MaxGroupSize : LoadGroup(k)

SpecScore == InitScore /\ [][NextScore]_vars

----------------------------------------------------------------------------
(* SpecRules: the analysis of small textured and rigged assets *)

InitRules ==
  /\ \/ \E n \in 1..MaxTexturedMeshes :
          \E look \in [1..n -> 1..Len(TexturedLooks)] :
             /\ \A i \in 1..(n - 1) : look[i] <= look[i + 1]
             /\ nodes = TexturedScene(n, look)
     \/ \E nStatic \in {1, MergeMinCount, MergeMinCount + 1} :
          \E n \in 0..MaxDynamicMeshes :
             \E look \in [1..n -> 1..Len(RiggedLooks)] :
                /\ \A i \in 1..(n - 1) : look[i] <= look[i + 1]
                /\ nodes = RiggedScene(nStatic, look)
  /\ geoms = InitGeoms
  /\ rawData = NoData
  /\ report = NoReport
  /\ passes = 0
  /\ last = NoCall
  /\ ops = 0
  /\ HostAtRest

NextRules == Analyze

SpecRules == InitRules /\ [][NextRules]_vars

----------------------------------------------------------------------------
(* Properties of the score, checked under SpecScore *)

HasIssue(r, type) == \E i \in 1..Len(r.issues) : r.issues[i].type = type

\* C9: score monotonicity.  Adding one duplicate-geometry group of k >= 2
\* static meshes, which triggers no other scoring rule, to a scene whose
\* score is 100 gives the score 100 - min(10, 2k); the static_merge issue of
\* a group of more than 5 takes nothing off.
C9_ScoreMonotonicity ==
  (/\ last.op = "load_group"
   /\ passes >= 1
   /\ evaluate(analyze(last.pre, last.preGeoms)).score = 100
   /\ ~HasIssue(report, "material_fragmentation")
   /\ ~HasIssue(report, "texture_overkill")
   /\ ~HasIssue(report, "high_density"))
    => report.score = 100 - (IF 2 * Len(last.ids) < 10 THEN 2 * Len(last.ids) ELSE 10)

\* a group of more than 5 went into a clean scene: both issues are reported
C9_Witness ==
  /\ last.op = "load_group"
  /\ passes >= 1
  /\ evaluate(analyze(last.pre, last.preGeoms)).score = 100
  /\ Len(last.ids) > 5
  /\ HasIssue(report, "duplicate_geometry")
  /\ HasIssue(report, "static_merge")
  /\ report.score = 90

\* what the rule behind an issue takes off the score
RuleDeduction(issue) ==
  CASE issue.type = "duplicate_geometry" ->
         IF 2 * issue.count < 10 THEN 2 * issue.count ELSE 10
    [] issue.type = "material_fragmentation" -> 10
    [] issue.type = "texture_overkill" -> 5
    [] issue.type = "high_density" -> 10
    [] OTHER -> 0

TotalDeduction(r) == SumSeq([i \in 1..Len(r.issues) |-> RuleDeduction(r.issues[i])])

\* C10: score range and status.  The reported score is max(0, 100 - sum of
\* the rule deductions), lies in 0..100, and the status agrees with it:
\* optimized iff score > 85, improvable iff 60 < score <= 85, heavy iff
\* score <= 60.
C10_ScoreRangeAndStatus ==
  passes >= 1 =>
    /\ report.score = (IF TotalDeduction(report) > 100 THEN 0
                       ELSE 100 - TotalDeduction(report))
    /\ report.score \in 0..100
    /\ (report.status = "optimized") <=> (report.score > 85)
    /\ (report.status = "improvable") <=> (report.score > 60 /\ report.score <= 85)
    /\ (report.status = "heavy") <=> (report.score <= 60)

\* a report whose deductions add up to more than 100
C10_Witness ==
  /\ passes >= 1
  /\ TotalDeduction(report) > 100
  /\ report.score = 0
  /\ report.status = "heavy"

----------------------------------------------------------------------------
(* Properties of the texture rule, checked under SpecRules *)

\* the meshes the walker reaches, and the textures their materials carry
WalkedSet(ns) == Range(WalkedMeshes(ns))

UsesTexture(ns, id, uuid) ==
  \E k \in 1..Len(MaterialMaps(ns[id].material)) :
     MaterialMaps(ns[id].material)[k].uuid = uuid

SceneTextures(ns) ==
  UNION {Range(MaterialMaps(ns[id].material)) : id \in WalkedSet(ns)}

\* meshes of volume < 0.1 using the texture
SmallUsers(ns, gs, uuid) ==
  {id \in WalkedSet(ns) :
     UsesTexture(ns, id, uuid) /\ MeshVolume(gs[ns[id].geometry]) < 100000}

OverkillIssuesFor(r, uuid) ==
  SelectSeq(r.issues,
            LAMBDA i : i.type = "texture_overkill" /\ i.id = <<"tex-overkill", uuid, -1>>)

OverkillTextures(ns, gs) ==
  {t \in SceneTextures(ns) :
     t.width * t.height >= 4096 * 4096 /\ SmallUsers(ns, gs, t.uuid) # {}}

OtherDeductions(r) ==
  SumSeq([i \in 1..Len(r.issues) |->
            IF r.issues[i].type = "texture_overkill" THEN 0
            ELSE RuleDeduction(r.issues[i])])

\* C11: texture overkill rule.  A texture raises exactly one texture_overkill
\* issue iff its area is at least 4096^2 and a mesh of volume < 0.1 uses it,
\* and none otherwise (so none for an area between 2048^2 and 4096^2); the
\* issue lists exactly the qualifying meshes, each once; every such issue
\* takes 5 off the score.
C11_TextureOverkillRule ==
  passes >= 1 =>
    /\ \A t \in SceneTextures(nodes) :
          LET found == OverkillIssuesFor(report, t.uuid)
          IN IF t \in OverkillTextures(nodes, geoms)
             THEN /\ Len(found) = 1
                  /\ Range(found[1].affectedUuids) = SmallUsers(nodes, geoms, t.uuid)
                  /\ Len(found[1].affectedUuids)
                       = Cardinality(SmallUsers(nodes, geoms, t.uuid))
             ELSE Len(found) = 0
    /\ Cardinality({i \in 1..Len(report.issues) :
                      report.issues[i].type = "texture_overkill"})
         = Cardinality(OverkillTextures(nodes, geoms))
    /\ report.score
         = Max2(0, 100 - OtherDeductions(report)
                       - 5 * Cardinality(OverkillTextures(nodes, geoms)))

\* one mesh of volume 0.05 with one 4096 x 4096 texture: one issue, listing it
C11_Witness ==
  /\ passes >= 1
  /\ WalkedSet(nodes) = {1}
  /\ MeshVolume(geoms[nodes[1].geometry]) = 50000
  /\ MaterialMaps(nodes[1].material) = <<Tex(0, 4096, 4096)>>
  /\ Len(report.issues) = 1
  /\ report.issues[1].type = "texture_overkill"
  /\ report.issues[1].affectedUuids = <<1>>
  /\ report.score = 95

(* Properties of the grouping rules, checked under SpecRules *)

\* a mesh with a skeleton or a non-empty morph-target influence list
Dynamic(n) == n.skeleton \/ n.morphTargets > 0

StaticWalked(ns) == {id \in WalkedSet(ns) : ~Dynamic(ns[id])}

StaticWithKey(ns, g, m) ==
  {id \in StaticWalked(ns) : ns[id].geometry = g /\ ns[id].material = m}

StaticWithMaterial(ns, m) == {id \in StaticWalked(ns) : ns[id].material = m}

IssuesWithId(r, id) == SelectSeq(r.issues, LAMBDA i : i.id = id)

\* C16: static-only grouping.  A mesh with a skeleton or with morph-target
\* influences is never listed by a duplicate_geometry, static_merge or
\* lod_needed issue and never counts toward the size of an instancing or
\* material group: the groups and the issue counts are those of the static
\* meshes alone.
C16_StaticOnlyGrouping ==
  passes >= 1 =>
    /\ \A i \in 1..Len(report.issues) :
          report.issues[i].type \in {"duplicate_geometry", "static_merge", "lod_needed"}
            => Range(report.issues[i].affectedUuids) \subseteq StaticWalked(nodes)
    /\ \A k \in 1..Len(InstancingGroups(rawData)) :
          LET g == InstancingGroups(rawData)[k]
          IN /\ Range(g.affectedUuids) = StaticWithKey(nodes, g.geometryUuid, g.materialUuid)
             /\ Len(g.affectedUuids) = Cardinality(Range(g.affectedUuids))
    /\ \A k \in 1..Len(MaterialGroups(rawData)) :
          LET g == MaterialGroups(rawData)[k]
          IN /\ Range(g.meshUuids) = StaticWithMaterial(nodes, g.materialUuid)
             /\ Len(g.meshUuids) = Cardinality(Range(g.meshUuids))
    /\ \A id \in WalkedSet(nodes) :
          LET g == nodes[id].geometry
              m == nodes[id].material
              dup == IssuesWithId(report, <<"instancing", g, m>>)
              mrg == IssuesWithId(report, <<"static-merge", m, -1>>)
          IN /\ Len(dup) = (IF Cardinality(StaticWithKey(nodes, g, m)) > 1 THEN 1 ELSE 0)
             /\ Len(dup) = 1 => dup[1].count = Cardinality(StaticWithKey(nodes, g, m))
             /\ Len(mrg) = (IF Cardinality(StaticWithMaterial(nodes, m)) > 5 THEN 1 ELSE 0)
             /\ Len(mrg) = 1 => mrg[1].count = Cardinality(StaticWithMaterial(nodes, m))

\* six static cubes, a skinned cube and a high-poly block with a morph
\* target share one material: the merge proposal counts six, and no level of
\* detail is proposed
C16_Witness ==
  /\ passes >= 1
  /\ \E id \in WalkedSet(nodes) : nodes[id].skeleton /\ nodes[id].material = RiggedMaterial
  /\ \E id \in WalkedSet(nodes) :
        /\ nodes[id].morphTargets > 0
        /\ TriangleCount3(geoms[nodes[id].geometry]) > 3 * LodTriangles
  /\ Len(IssuesWithId(report, <<"static-merge", RiggedMaterial, -1>>)) = 1
  /\ IssuesWithId(report, <<"static-merge", RiggedMaterial, -1>>)[1].count = 6
  /\ Cardinality({id \in WalkedSet(nodes) : nodes[id].material = RiggedMaterial}) = 8
  /\ ~HasIssue(report, "lod_needed")

\* high before medium before low
SeverityRank(severity) ==
  CASE severity = "high" -> 3 [] severity = "medium" -> 2 [] OTHER -> 1

\* C21: ranked issue list.  In every report the issues are ordered by
\* non-increasing severity: every 'high' issue precedes every 'medium' one,
\* which precedes every 'low' one.
C21_RankedIssueList ==
  passes >= 1 =>
    /\ \A i \in 1..Len(report.issues) :
          report.issues[i].severity \in {"high", "medium", "low"}
    /\ \A i, j \in 1..Len(report.issues) :
          i < j => SeverityRank(report.issues[i].severity)
                     >= SeverityRank(report.issues[j].severity)

\* a report with an issue of each severity
C21_Witness ==
  /\ passes >= 1
  /\ \E i, j, k \in 1..Len(report.issues) :
        /\ report.issues[i].severity = "high"
        /\ report.issues[j].severity = "medium"
        /\ report.issues[k].severity = "low"

----------------------------------------------------------------------------
(* Further properties of the analysis pipeline, checked under Spec *)

\* the scene holds no mesh node, or only mesh nodes with a provenance tag
NoPlainMesh(ns) == \A id \in SceneMeshes(ns) : IsOptimized(ns[id])

\* C12: empty scene.  Analysing a scene with no mesh nodes, or with only
\* provenance-tagged ones, gives score 100, status optimized and no issue.
C12_EmptyScene ==
  (passes >= 1 /\ NoPlainMesh(nodes)) =>
    /\ report.score = 100
    /\ report.status = "optimized"
    /\ report.issues = <<>>
    /\ rawData = NoData

\* a pass over a scene whose only mesh nodes are results of transforms
C12_Witness ==
  /\ passes >= 1
  /\ SceneMeshes(nodes) # {}
  /\ NoPlainMesh(nodes)
  /\ report.score = 100

----------------------------------------------------------------------------
(* SpecSteps: the transforms executed statement by statement.  A call first *)
(* builds and tags its replacement node, then attaches it to the parent,    *)
(* then detaches the originals one at a time, then returns.                 *)

\* the scene once the call has constructed and tagged its new objects: the
\* replacement has no parent yet and every original is still in place
Constructed(ns, res) ==
  [id \in DOMAIN res.nodes |->
     IF id \in DOMAIN ns THEN ns[id]
     ELSE IF id = res.created[1] THEN [res.nodes[id] EXCEPT !.parent = NoParent]
     ELSE res.nodes[id]]

\* entry of a transform up to the point where the replacement is built; a
\* call that returns null returns from here
BeginCall(op, ids, res) ==
  /\ call.pc = "idle"
  /\ ops < MaxStepCalls
  /\ IF res.ok
     THEN /\ nodes' = Constructed(nodes, res)
          /\ geoms' = res.geoms
          /\ call' = [pc |-> "built", op |-> op, ids |-> ids,
                      node |-> res.created[1],
                      parent |-> res.nodes[res.created[1]].parent,
                      pending |-> res.resolved, resolved |-> res.resolved,
                      pre |-> nodes, preGeoms |-> geoms]
          /\ UNCHANGED <<last, ops>>
     ELSE /\ last' = [op |-> op, ids |-> ids, ok |-> FALSE, created |-> <<>>,
                      resolved |-> res.resolved, pre |-> nodes, preGeoms |-> geoms]
          /\ ops' = ops + 1
          /\ UNCHANGED <<nodes, geoms, call>>
  /\ UNCHANGED <<rawData, report, passes, host, sched, obs>>

StepConvert(ids) ==
  BeginCall("convert_to_instanced", ids, convertToInstanced(nodes, geoms, ids))

StepMerge(ids) ==
  BeginCall("merge_static", ids, mergeMeshes(nodes, geoms, ids))

StepLOD(id) ==
  BeginCall("generate_lod_one", <<id>>, generateLOD(nodes, geoms, id))

\* parent.add(instancedMesh) / parent.add(mergedMesh) / parent.add(lod)
AttachReplacement ==
  /\ call.pc = "built"
  /\ nodes' = AddChild(nodes, call.parent, call.node)
  /\ call' = [call EXCEPT !.pc = "attached"]
  /\ UNCHANGED <<geoms, rawData, report, passes, last, ops, host, sched, obs>>

\* variant in which the removal loop may run before parent.add
CanRemoveEarly(c) == c.pc \in {"built", "attached"}

\* the removal statements come after parent.add in all three transforms
CanRemove(c) == c.pc = "attached"

\* one turn of meshes.forEach(mesh => if (mesh.parent) mesh.parent.remove(mesh)),
\* or parent.remove(targetMesh)
RemoveOriginal ==
  /\ CanRemove(call)
  /\ call.pending # <<>>
  /\ LET m == Head(call.pending)
     IN nodes' = IF nodes[m].parent # NoParent
                 THEN RemoveChild(nodes, nodes[m].parent, m) ELSE nodes
  /\ call' = [call EXCEPT !.pending = Tail(@)]
  /\ UNCHANGED <<geoms, rawData, report, passes, last, ops, host, sched, obs>>

\* return instancedMesh / return mergedMesh / return lod
ReturnResult ==
  /\ call.pc = "attached"
  /\ call.pending = <<>>
  /\ last' = [op |-> call.op, ids |-> call.ids, ok |-> TRUE,
              created |-> <<call.node>>, resolved |-> call.resolved,
              pre |-> call.pre, preGeoms |-> call.preGeoms]
  /\ call' = IdleCall
  /\ ops' = ops + 1
  /\ passes' = 0
  /\ UNCHANGED <<nodes, geoms, rawData, report, host, sched, obs>>

NextSteps ==
  \/ \E ids \in CallerLists : StepConvert(ids)
  \/ \E ids \in CallerLists : StepMerge(ids)
  \/ \E id \in LiveMeshIds \cup {Ghost} : StepLOD(id)
  \/ AttachReplacement
  \/ RemoveOriginal
  \/ ReturnResult

SpecSteps == Init /\ [][NextSteps]_vars

----------------------------------------------------------------------------
(* Properties of the step-wise execution, checked under SpecSteps *)

InCall == call.pc # "idle"

\* the originals, the scene before, and the replacement of the call that is
\* in progress or, when none is, of the call that returned last
CallOriginals == IF InCall THEN call.resolved ELSE last.resolved
CallBefore == IF InCall THEN call.pre ELSE last.pre
CallReplacement == IF InCall THEN {call.node} ELSE Range(last.created)

FullyBuilt(ns, gs, c) ==
  /\ IsOptimized(ns[c])
  /\ CASE ns[c].kind = "InstancedMesh" ->
            /\ ns[c].geometry \in DOMAIN gs
            /\ Len(ns[c].instances) = Len(CallOriginals)
       [] ns[c].kind = "Mesh" -> ns[c].geometry \in DOMAIN gs
       [] ns[c].kind = "LOD" ->
            /\ Len(ns[c].levels) = 3
            /\ \A i \in 1..3 : Includes(ns[c].children, ns[c].levels[i].object)
       [] OTHER -> FALSE

Attached(ns, c) ==
  /\ c \in Reachable(ns)
  /\ ns[c].parent # NoParent
  /\ Includes(ns[ns[c].parent].children, c)

\* the atomic operators describe the state a step-wise call returns in
StepsAgreeWithCalls ==
  (~InCall /\ last.op # "none" /\ last.ok) =>
     nodes = (CASE last.op = "convert_to_instanced" ->
                     convertToInstanced(last.pre, last.preGeoms, last.ids).nodes
                [] last.op = "merge_static" ->
                     mergeMeshes(last.pre, last.preGeoms, last.ids).nodes
                [] OTHER -> generateLOD(last.pre, last.preGeoms, last.ids[1]).nodes)

\* C13: replace-then-remove ordering.  In no state, during or after a call,
\* successful or failed, is an original detached from the scene while the
\* replacement is not fully built, tagged and attached to its parent.
C13_ReplaceThenRemove ==
  \A i \in 1..Len(CallOriginals) :
     LET o == CallOriginals[i]
     IN (o \in Reachable(CallBefore) /\ o \notin Reachable(nodes)) =>
          \E c \in CallReplacement :
             c \in DOMAIN nodes /\ FullyBuilt(nodes, geoms, c) /\ Attached(nodes, c)

\* a call in the middle of its removal loop: one original is gone, another
\* is still in the scene
C13_Witness ==
  /\ InCall
  /\ call.pending # <<>>
  /\ \E i \in 1..Len(call.resolved) : call.resolved[i] \notin Reachable(nodes)
  /\ \E i \in 1..Len(call.resolved) : call.resolved[i] \in Reachable(nodes)

----------------------------------------------------------------------------
(* SpecHost: the viewer page, the model viewer and the analysis hook.  The  *)
(* hook's effect depends on [scene, refreshKey]; each re-run clears the     *)
(* timer of the previous run and, with a scene, starts a new one.  Time is  *)
(* in milliseconds and passes in steps of TickMs; a timer may fire late,    *)
(* never early.                                                             *)

DebounceMs == 500
TickMs == DebounceMs \div 2

\* variant whose cleanup leaves the previous timer pending
KeptTimersAll(s) == s.timers

\* return () => clearTimeout(timer): cleanup of the previous effect run
KeptTimers(s) == {t \in s.timers : t.id # s.effectTimer}

\* re-run of useEffect(..., [scene, refreshKey]): cleanup, then the body
RunEffect(s, scene) ==
  IF scene
  THEN [timers |-> KeptTimers(s) \cup {[id |-> s.created, left |-> DebounceMs]},
        effectTimer |-> s.created, created |-> s.created + 1]
  ELSE [timers |-> KeptTimers(s), effectTimer |-> -1, created |-> s.created]

\* what an effect re-run leaves in the observations
Triggered(o, s) ==
  [o EXCEPT !.events = @ + 1, !.runs = 0, !.elapsed = 0,
            !.burst = IF s.timers # {} /\ o.elapsed < DebounceMs THEN @ + 1 ELSE 1]

InitHost ==
  /\ \E n \in 1..MaxHostMeshes :
       \E look \in [1..n -> 1..Len(Looks)] :
          /\ \A i \in 1..(n - 1) : look[i] <= look[i + 1]
          /\ nodes = LoadedScene(n, look)
  /\ geoms = InitGeoms
  /\ rawData = NoData
  /\ report = NoReport
  /\ passes = 0
  /\ last = NoCall
  /\ ops = 0
  /\ HostAtRest

\* GLTFLoader onLoad: setModel(gltf.scene), which re-runs the hook's effect
LoadModel ==
  /\ ~host.model
  /\ obs.events < MaxEvents
  /\ host' = [host EXCEPT !.model = TRUE]
  /\ sched' = RunEffect(sched, TRUE)
  /\ geoms' = InitGeoms
  /\ obs' = [Triggered(obs, sched) EXCEPT !.awaiting = "load", !.handler = "load"]
  /\ UNCHANGED <<nodes, rawData, report, passes, last, ops, call>>

\* another file is chosen: setModel(null); the effect's body does
\* setReport(null) and starts no timer (the asset is loaded again as it was,
\* so this is modelled for assets that no transform has changed)
StartLoad ==
  /\ host.model
  /\ ops = 0
  /\ obs.events < MaxEvents
  /\ host' = [host EXCEPT !.model = FALSE]
  /\ sched' = RunEffect(sched, FALSE)
  /\ report' = NoReport
  /\ rawData' = NoData
  /\ passes' = 0
  /\ obs' = [Triggered(obs, sched) EXCEPT !.awaiting = "none", !.burst = 0,
                                         !.handler = "start_load"]
  /\ UNCHANGED <<nodes, geoms, last, ops, call>>

\* TickMs of time pass
Tick ==
  /\ sched.timers # {}
  /\ sched' = [sched EXCEPT !.timers =
                 {[id |-> t.id, left |-> Max2(0, t.left - TickMs)] : t \in sched.timers}]
  /\ obs' = [obs EXCEPT !.elapsed = Min2(@ + TickMs, DebounceMs)]
  /\ UNCHANGED <<nodes, geoms, rawData, report, passes, last, ops, call, host>>

\* variant in which the callback works on a copy of the scene taken before
\* the last transform
SceneBeforeTransform ==
  IF last.ok THEN [nodes |-> last.pre, geoms |-> last.preGeoms]
  ELSE [nodes |-> nodes, geoms |-> geoms]

\* the callback's closure holds the scene object itself, which the
\* transforms change in place: what it walks is the scene as it is now
SceneAtFire == [nodes |-> nodes, geoms |-> geoms]

\* the setTimeout callback: analyze, evaluate, setReport
TimerFires(t) ==
  /\ t \in sched.timers
  /\ t.left = 0
  /\ rawData' = analyze(SceneAtFire.nodes, SceneAtFire.geoms)
  /\ geoms' = analyzeGeoms(nodes, geoms)
  /\ report' = evaluate(rawData')
  /\ passes' = Min2(passes + 1, 2)
  /\ sched' = [sched EXCEPT !.timers = @ \ {t}]
  /\ obs' = [obs EXCEPT !.runs = @ + 1, !.awaiting = "none"]
  /\ UNCHANGED <<nodes, last, ops, call, host>>

\* the transform that handleOptimize invokes for the issue's action
InvokeTransform(issue) ==
  CASE issue.action = "convert_to_instanced" ->
         convertToInstanced(nodes, geoms, issue.affectedUuids)
    [] issue.action = "merge_static" ->
         mergeMeshes(nodes, geoms, issue.affectedUuids)
    [] OTHER -> generateLODForBatch(nodes, geoms, issue.affectedUuids)

\* type of the OptimizationEvent recorded for an action
EventType(action) ==
  IF action = "convert_to_instanced" THEN "instancing"
  ELSE IF action = "merge_static" THEN "merge" ELSE "lod"

\* variant that does the bookkeeping whatever the transform returned
BookkeepingAlways(res) == TRUE

\* if (result) { ... }
Bookkeeping(res) == res.ok

\* body of handleOptimize once the transform has returned res
Optimize(issue, res) ==
  /\ nodes' = res.nodes
  /\ geoms' = res.geoms
  /\ last' = [op |-> issue.action, ids |-> issue.affectedUuids, ok |-> res.ok,
              created |-> res.created, resolved |-> res.resolved,
              pre |-> nodes, preGeoms |-> geoms]
  /\ ops' = IF res.ok THEN ops + 1 ELSE ops
  /\ passes' = IF res.nodes = nodes THEN passes ELSE 0
  /\ IF Bookkeeping(res)
     THEN /\ host' = [host EXCEPT
                        !.appliedIssueIds = @ \cup {issue.id},
                        !.sceneVersion = @ + 1,
                        !.optimizationHistory = <<EventType(issue.action)>> \o @,
                        !.analysisRefreshKey = @ + 1]
          /\ sched' = RunEffect(sched, host.model)
          /\ obs' = [Triggered(obs, sched) EXCEPT
                       !.awaiting = "transform",
                       !.handler = "optimize",
                       !.issue = issue.id,
                       !.applied = @ \cup {<<issue.id, Range(issue.affectedUuids)>>}]
     ELSE /\ obs' = [obs EXCEPT !.events = @ + 1, !.handler = "optimize",
                                !.issue = issue.id]
          /\ UNCHANGED <<host, sched>>
  /\ UNCHANGED <<rawData, report, call>>

\* handleOptimize(issue) for an issue of the displayed report
HandleOptimize(i) ==
  /\ host.model
  /\ ops < MaxOps
  /\ obs.events < MaxEvents
  /\ report.issues[i].canAutoOptimize
  /\ Optimize(report.issues[i], InvokeTransform(report.issues[i]))

\* handleDismiss(issue): the refresh key is bumped, the scene is not touched
HandleDismiss(i) ==
  /\ obs.events < MaxEvents
  /\ host' = [host EXCEPT !.dismissedIssueIds = @ \cup {report.issues[i].id},
                          !.analysisRefreshKey = @ + 1]
  /\ sched' = RunEffect(sched, host.model)
  /\ obs' = [Triggered(obs, sched) EXCEPT !.handler = "dismiss"]
  /\ UNCHANGED <<nodes, geoms, rawData, report, passes, last, ops, call>>

\* handleToggleVisibility(uuid, visible): node.visible, setSceneVersion(v + 1)
HandleToggleVisibility(uuid, visible) ==
  /\ host.model
  /\ obs.events < MaxEvents
  /\ host' = [host EXCEPT
                !.hidden = IF uuid \notin Reachable(nodes) THEN @
                           ELSE IF visible THEN @ \ {uuid} ELSE @ \cup {uuid},
                !.sceneVersion = @ + 1]
  /\ obs' = [obs EXCEPT !.events = @ + 1, !.awaiting = "visibility",
                        !.handler = "toggle"]
  /\ UNCHANGED <<nodes, geoms, rawData, report, passes, last, ops, call, sched>>

\* handleIsolate(uuid): every Mesh or Group node is visible iff it is uuid
HandleIsolate(uuid) ==
  /\ host.model
  /\ obs.events < MaxEvents
  /\ LET typed == {id \in Reachable(nodes) : nodes[id].kind \in {"Mesh", "Group"}}
     IN host' = [host EXCEPT !.hidden = (@ \ typed) \cup (typed \ {uuid}),
                             !.sceneVersion = @ + 1]
  /\ obs' = [obs EXCEPT !.events = @ + 1, !.awaiting = "visibility",
                        !.handler = "isolate"]
  /\ UNCHANGED <<nodes, geoms, rawData, report, passes, last, ops, call, sched>>

NextHost ==
  \/ LoadModel
  \/ StartLoad
  \/ Tick
  \/ \E t \in sched.timers : TimerFires(t)
  \/ \E i \in 1..Len(report.issues) : HandleOptimize(i)
  \/ \E i \in 1..Len(report.issues) : HandleDismiss(i)
  \/ \E visible \in BOOLEAN : HandleToggleVisibility(FirstMesh, visible)
  \/ HandleIsolate(FirstMesh)

\* a timer has run out and its callback has not been run yet
TimerDue == \E t \in sched.timers : t.left = 0

\* a step in which the pipeline runs
RunStep == obs'.runs = obs.runs + 1

\* weak fairness of the timer callback, WF_vars(\E t : TimerFires(t)), written
\* out: the callback is enabled exactly when a timer is due, and its steps
\* are the steps that add a run
TimerFairness == <>[]TimerDue => []<><<RunStep>>_vars

\* the browser lets time pass and runs a timer that is due; the user's
\* actions are under no obligation
SpecHost ==
  /\ InitHost
  /\ [][NextHost]_vars
  /\ WF_vars(Tick)
  /\ TimerFairness

----------------------------------------------------------------------------
(* Properties of the host, checked under SpecHost *)

\* a step that changes one of the effect's dependencies [scene, refreshKey]
TriggerStep ==
  \/ host'.model # host.model
  \/ host'.analysisRefreshKey # host.analysisRefreshKey

\* C14: trailing-edge debounce.  Every trigger cancels the pending timer and
\* (with a scene to analyse) opens a new 500 ms window; at most one run is
\* pending at any time; the pipeline runs only once the window of the latest
\* trigger has passed; and a burst of triggers, each inside the window of the
\* one before, is followed by exactly one run, after the last of them.
C14_TrailingEdgeDebounce ==
  /\ [](Cardinality(sched.timers) <= 1)
  /\ [](obs.runs <= 1)
  /\ [][TriggerStep =>
          /\ sched.timers \cap sched'.timers = {}
          /\ host'.model => sched'.timers = {[id |-> sched.created, left |-> DebounceMs]}
          /\ obs'.runs = 0]_vars
  /\ [][RunStep => (obs.elapsed = DebounceMs /\ sched'.timers = {})]_vars
  /\ (sched.timers # {}) ~> (sched.timers = {} /\ (obs.runs = 1 \/ ~host.model))

\* a burst of two triggers has been answered by one run
C14_Witness ==
  /\ obs.burst >= 2
  /\ obs.runs = 1
  /\ sched.timers = {}

\* C22: debounce liveness.  Whenever an analysis is triggered on a non-null
\* scene and no further trigger follows, the pipeline eventually runs, once;
\* the report it publishes is computed from the scene graph as it is when the
\* timer fires, transforms applied after the trigger included, so it lists
\* no node that a transform has removed.
C22_DebounceLiveness ==
  /\ \A c \in 1..MaxEvents :
        (sched.created = c /\ sched.timers # {})
          ~> (sched.created # c \/ ~host.model \/ (obs.runs = 1 /\ sched.timers = {}))
  /\ [][RunStep =>
          /\ obs.runs = 0
          /\ rawData' = analyze(nodes, geoms)
          /\ report' = evaluate(analyze(nodes, geoms))
          /\ \A i \in 1..Len(report'.issues) :
                Range(report'.issues[i].affectedUuids) \subseteq Reachable(nodes)]_vars

\* a dismissal opened a window, a transform was applied inside it, and the
\* one run that followed reported on the transformed scene
C22_Witness ==
  /\ obs.runs = 1
  /\ obs.burst >= 2
  /\ obs.handler = "optimize"
  /\ last.ok
  /\ sched.timers = {}
  /\ rawData = analyze(nodes, last.preGeoms)
  /\ rawData # analyze(last.pre, last.preGeoms)

\* C15: analysis triggers.  After each scene-mutating event (initial load, a
\* successfully applied transform, a visibility change by toggle or isolate)
\* a run of the pipeline is scheduled, so that a fresh report is eventually
\* published.
C15_AnalysisTriggers ==
  (obs.awaiting \in {"load", "transform", "visibility"}) ~> (obs.awaiting = "none")

\* the same for the events that do change a dependency of the hook's effect
LoadAndTransformTrigger ==
  (obs.awaiting \in {"load", "transform"}) ~> (obs.awaiting = "none")

\* a step of handleOptimize
OptimizeStep == obs'.handler = "optimize" /\ obs'.events = obs.events + 1

\* what the transform invoked for the issue handed over returns
TransformResult ==
  LET issue == CHOOSE x \in Range(report.issues) : x.id = obs'.issue
  IN InvokeTransform(issue).ok

\* C20: host bookkeeping on transform outcome.  handleOptimize adds one to the
\* scene version, marks the issue applied, records one history event and
\* bumps the refresh key if the transform returned a result, and leaves all
\* four as they were if it did not.
C20_HostBookkeeping ==
  [][OptimizeStep =>
       IF TransformResult
       THEN /\ host'.sceneVersion = host.sceneVersion + 1
            /\ host'.appliedIssueIds = host.appliedIssueIds \cup {obs'.issue}
            /\ Len(host'.optimizationHistory) = Len(host.optimizationHistory) + 1
            /\ host'.analysisRefreshKey = host.analysisRefreshKey + 1
       ELSE /\ host'.sceneVersion = host.sceneVersion
            /\ host'.appliedIssueIds = host.appliedIssueIds
            /\ host'.optimizationHistory = host.optimizationHistory
            /\ host'.analysisRefreshKey = host.analysisRefreshKey]_vars

\* an issue was applied, then handed over again before the next report, and
\* the second call failed
C20_Witness ==
  /\ obs.handler = "optimize"
  /\ last.op # "none"
  /\ ~last.ok
  /\ obs.issue \in host.appliedIssueIds
  /\ host.sceneVersion = 2
  /\ Len(host.optimizationHistory) = 1
  /\ host.analysisRefreshKey = 1

----------------------------------------------------------------------------
(* SpecDebug: the debug render modes.  Every mode but 'none' puts a debug   *)
(* material on every mesh of the scene, after caching the mesh's material   *)
(* in userData.originalMaterial if nothing is cached yet; 'none' puts the   *)
(* cached materials back.  Materials are identified by their uuid.          *)

DebugModes ==
  {"none", "wireframe", "normals", "uv", "depth", "flat", "albedo",
   "no_lighting", "heatmap", "overdraw", "gpu_cost"}

\* the two materials that are created once and shared by every mesh
UvMaterial == 2000
OverdrawMaterial == 2001
FirstDebugMaterial == 3000

\* uuid of a material created now: one that no node refers to
FreshMaterial(ns) ==
  LET used == {ns[id].material : id \in DOMAIN ns}
                \cup {ns[id].originalMaterial : id \in DOMAIN ns}
  IN CHOOSE m \in FirstDebugMaterial..(FirstDebugMaterial + Cardinality(used)) :
       /\ m \notin used
       /\ \A o \in FirstDebugMaterial..(m - 1) : o \in used

\* variant that caches the current material on every call
CacheOriginalAlways(n) == n.material

\* if (!node.userData.originalMaterial) node.userData.originalMaterial = node.material
CacheOriginal(n) ==
  IF n.originalMaterial = NoMaterial THEN n.material ELSE n.originalMaterial

\* the material a mode puts on a mesh: the shared uv or overdraw material,
\* or a material made for this mesh
DebugMaterial(ns, mode) ==
  CASE mode = "uv" -> UvMaterial
    [] mode = "overdraw" -> OverdrawMaterial
    [] OTHER -> FreshMaterial(ns)

RECURSIVE OverrideAll(_, _, _)
\* scene.traverse(node => { if (node instanceof Mesh) { cache; override } })
OverrideAll(ns, ids, mode) ==
  IF ids = <<>> THEN ns
  ELSE LET id == Head(ids)
           cached == [ns EXCEPT ![id].originalMaterial = CacheOriginal(ns[id])]
       IN OverrideAll([cached EXCEPT ![id].material = DebugMaterial(cached, mode)],
                      Tail(ids), mode)

\* DebugMaterialEngine.restoreOriginals: the cache is kept
restoreOriginals(ns) ==
  [id \in DOMAIN ns |->
     IF id \in Reachable(ns) /\ IsMesh(ns[id]) /\ ns[id].originalMaterial # NoMaterial
     THEN [ns[id] EXCEPT !.material = ns[id].originalMaterial]
     ELSE ns[id]]

\* DebugMaterialEngine.applyMode
applyMode(ns, mode) ==
  IF mode = "none" THEN restoreOriginals(ns)
  ELSE OverrideAll(ns, SelectSeq(Traverse(ns, Root), LAMBDA id : IsMesh(ns[id])), mode)

\* the assets looked at: one mesh, two meshes sharing a material, three
\* meshes of which one has a material of its own
DebugScenes ==
  {LoadedScene(1, <<1>>), LoadedScene(2, <<1, 1>>), LoadedScene(3, <<1, 4, 5>>)}

InitDebug ==
  /\ nodes \in DebugScenes
  /\ geoms = InitGeoms
  /\ rawData = NoData
  /\ report = NoReport
  /\ passes = 0
  /\ last = NoCall
  /\ ops = 0
  /\ HostAtRest

\* the debug mode is set; `last` keeps the modes applied so far and the
\* scene as it was before the first of them
ApplyMode(mode) ==
  /\ Len(last.ids) < MaxDebugCalls
  /\ nodes' = applyMode(nodes, mode)
  /\ last' = [op |-> "apply_mode", ids |-> Append(last.ids, mode), ok |-> TRUE,
              created |-> <<>>, resolved |-> <<>>,
              pre |-> IF last.op = "none" THEN nodes ELSE last.pre,
              preGeoms |-> geoms]
  /\ UNCHANGED <<geoms, rawData, report, passes, ops, hostVars>>

NextDebug == \E mode \in DebugModes : ApplyMode(mode)

SpecDebug == InitDebug /\ [][NextDebug]_vars

----------------------------------------------------------------------------
(* Properties of the debug modes, checked under SpecDebug *)

ReachableMeshes(ns) == {id \in Reachable(ns) : IsMesh(ns[id])}

\* C23: debug override round trip.  After any sequence of debug modes other
\* than 'none', in any order and with repetitions, followed by 'none', every
\* mesh has the material it had before the first debug mode; switching from
\* one debug mode to another never overwrites the cached original.
C23_DebugRoundTrip ==
  last.op = "apply_mode" =>
    /\ last.ids[Len(last.ids)] = "none" =>
         \A id \in ReachableMeshes(nodes) : nodes[id].material = last.pre[id].material
    /\ \A id \in ReachableMeshes(nodes) :
          nodes[id].originalMaterial \in {NoMaterial, last.pre[id].material}
    /\ last.ids[Len(last.ids)] # "none" =>
         \A id \in ReachableMeshes(nodes) :
            /\ nodes[id].originalMaterial = last.pre[id].material
            /\ nodes[id].material # last.pre[id].material

\* two different debug modes, then 'none', on a scene with two materials
C23_Witness ==
  /\ last.op = "apply_mode"
  /\ Len(last.ids) >= 3
  /\ last.ids[1] # "none"
  /\ last.ids[2] \notin {"none", last.ids[1]}
  /\ last.ids[Len(last.ids)] = "none"
  /\ Cardinality({last.pre[id].material : id \in ReachableMeshes(last.pre)}) >= 2
  /\ \A id \in ReachableMeshes(nodes) :
        nodes[id].material = last.pre[id].material

----------------------------------------------------------------------------
(* SpecNested: the pipeline on scenes whose root is itself a mesh, or whose *)
(* meshes have children.  The transforms take any Object3D as the scene;    *)
(* the calls are those the host makes, with the affected list of an issue.  *)

TreeMesh(parent, geometry, material) ==
  [kind |-> "Mesh", parent |-> parent, geometry |-> geometry, material |-> material]

TreeGroup(parent) ==
  [kind |-> "Group", parent |-> parent, geometry |-> NoGeometry, material |-> NoMaterial]

\* the scene described by t: node id is t[id + 1], children in id order,
\* every node with a placement of its own
TreeScene(t) ==
  [id \in 0..(Len(t) - 1) |->
     [Node(t[id + 1].kind, t[id + 1].geometry, t[id + 1].material,
           <<10 * id + 3, 0, id>>, id % 4, IF id % 2 = 1 THEN -1 ELSE 1, FALSE, 0)
        EXCEPT !.parent = t[id + 1].parent,
               !.children = SelectSeq([c \in 1..(Len(t) - 1) |-> c],
                                      LAMBDA c : t[c + 1].parent = id)]]

\* a mesh root with two or three meshes like it under it; a group root with
\* a mesh that holds another mesh and a group with a mesh in it; a mesh
\* root with five meshes of its material under it; a high-poly mesh root
\* with a child mesh; a mesh root alone
NestedScenes ==
  {TreeScene(<<TreeMesh(NoParent, 0, 0), TreeMesh(Root, 0, 0), TreeMesh(Root, 0, 0)>>),
   TreeScene(<<TreeMesh(NoParent, 0, 0), TreeMesh(Root, 0, 0), TreeMesh(Root, 0, 0),
               TreeMesh(1, 0, 0)>>),
   TreeScene(<<TreeGroup(NoParent), TreeMesh(Root, 0, 0), TreeMesh(1, 1, 0),
               TreeGroup(1), TreeMesh(3, 0, 0), TreeMesh(Root, 0, 0)>>),
   TreeScene(<<TreeGroup(NoParent), TreeMesh(Root, 3, 0), TreeMesh(1, 0, 0),
               TreeMesh(Root, 0, 0)>>),
   TreeScene(<<TreeMesh(NoParent, 0, 0), TreeMesh(Root, 1, 0), TreeMesh(Root, 1, 0),
               TreeMesh(Root, 1, 0), TreeMesh(Root, 1, 0), TreeMesh(Root, 1, 0)>>),
   TreeScene(<<TreeMesh(NoParent, 3, 0), TreeMesh(Root, 0, 0)>>),
   TreeScene(<<TreeMesh(NoParent, 3, 0)>>)}

InitNested ==
  /\ nodes \in NestedScenes
  /\ geoms = InitGeoms
  /\ rawData = NoData
  /\ report = NoReport
  /\ passes = 0
  /\ last = NoCall
  /\ ops = 0
  /\ HostAtRest

SpecNested == InitNested /\ [][Next]_vars

\* C24: merge removes every original.  After mergeMeshes has returned a
\* node, none of the mesh nodes it resolved is still reachable from the
\* scene root, also when the first resolved node has no parent (it is the
\* scene root) and the scene root is the fallback target parent.
C24_MergeRemovesOriginals ==
  (last.op = "merge_static" /\ last.ok) =>
    \A i \in 1..Len(last.resolved) : last.resolved[i] \notin Reachable(nodes)

\* what the removal loop does achieve: every resolved node that had a
\* parent is gone, and a resolved node still in the scene is the root
C24_ParentedOriginalsRemoved ==
  (last.op = "merge_static" /\ last.ok) =>
    \A i \in 1..Len(last.resolved) :
       last.resolved[i] \in Reachable(nodes) =>
         /\ last.resolved[i] = Root
         /\ last.pre[Root].parent = NoParent
         /\ nodes[last.created[1]].parent = Root

\* a merge whose first resolved node is the mesh at the scene root
C24_RootMerged ==
  /\ last.op = "merge_static"
  /\ last.ok
  /\ last.resolved[1] = Root
  /\ last.pre[Root].kind = "Mesh"
  /\ Len(last.resolved) >= 2

\* the report of the scene the last call was made on
ReportBefore == evaluate(analyze(last.pre, last.preGeoms))

\* the last call applied the transform of an auto-optimizable issue of that
\* report, with the issue's affected list
MatchingCall ==
  /\ last.op \in {"convert_to_instanced", "merge_static", "generate_lod"}
  /\ \E i \in 1..Len(ReportBefore.issues) :
        /\ ReportBefore.issues[i].canAutoOptimize
        /\ ReportBefore.issues[i].action = last.op
        /\ ReportBefore.issues[i].affectedUuids = last.ids

\* C25: transforms never lower the health score.  For every scene and every
\* auto-optimizable issue of its report, applying the matching transform
\* with the issue's affected list and analysing again gives a score at least
\* that of the report the issue came from.
C25_ScoreNeverLowered ==
  (MatchingCall /\ passes >= 1) => report.score >= ReportBefore.score

\* the same for the two transforms that replace their inputs by one node
C25_ScoreKeptByInstancingAndMerge ==
  (MatchingCall /\ passes >= 1 /\ last.op # "generate_lod") =>
     report.score >= ReportBefore.score

\* a LOD batch applied to the lod_needed list, then analysed
C25_LodAnalysed ==
  /\ MatchingCall
  /\ last.op = "generate_lod"
  /\ last.ok
  /\ passes >= 1
  /\ report.score < ReportBefore.score

\* C26: transforms touch only the listed nodes.  A successful
\* convertToInstanced, mergeMeshes or generateLOD call removes from the
\* scene only nodes whose ids were supplied: every node reachable before the
\* call whose id is not in the list (an unlisted child of a listed mesh, for
\* one) is still reachable, under the same id, after it.
C26_OnlyListedNodesTouched ==
  (last.op \in {"convert_to_instanced", "merge_static", "generate_lod"} /\ last.ok) =>
     (Reachable(last.pre) \ Range(last.ids)) \subseteq Reachable(nodes)

RECURSIVE HeldByResolved(_)
\* id was, before the last call, somewhere under a node the call resolved
HeldByResolved(id) ==
  /\ last.pre[id].parent # NoParent
  /\ \/ Includes(last.resolved, last.pre[id].parent)
     \/ HeldByResolved(last.pre[id].parent)

\* the unlisted nodes a successful call takes out of the scene are those
\* that hung under a mesh it resolved
C26_OnlyHeldNodesLost ==
  (last.op \in {"convert_to_instanced", "merge_static", "generate_lod"} /\ last.ok) =>
     \A id \in (Reachable(last.pre) \ Range(last.ids)) :
        id \notin Reachable(nodes) => HeldByResolved(id)

\* a successful call on a list naming a mesh that holds an unlisted node
C26_ChildOfListed ==
  /\ last.op \in {"convert_to_instanced", "merge_static", "generate_lod"}
  /\ last.ok
  /\ \E id \in (Reachable(last.pre) \ Range(last.ids)) : HeldByResolved(id)


\* C27: every reported remedy is applicable.  For every auto-optimizable
\* issue of a report computed from the scene, unchanged since the analysis,
\* the matching transform called with the issue's affected list returns a
\* result, also when one of the listed meshes is the scene root.
C27_RemedyApplicable ==
  (passes >= 1 /\ ops < MaxOps) =>
    \A i \in 1..Len(report.issues) :
       report.issues[i].canAutoOptimize => InvokeTransform(report.issues[i]).ok

\* the meshes of a merge issue have one attribute layout
OneLayout(issue) ==
  \A i \in 1..Len(issue.affectedUuids) :
     SameLayout(geoms[nodes[issue.affectedUuids[i]].geometry],
                geoms[nodes[issue.affectedUuids[1]].geometry])

\* the same for issues none of whose meshes is the parentless scene root
\* and, for a merge, whose meshes have one attribute layout
C27_RemedyApplicableBelowRoot ==
  (passes >= 1 /\ ops < MaxOps) =>
    \A i \in 1..Len(report.issues) :
       (/\ report.issues[i].canAutoOptimize
        /\ ~Includes(report.issues[i].affectedUuids, Root)
        /\ (report.issues[i].action = "merge_static" => OneLayout(report.issues[i])))
         => InvokeTransform(report.issues[i]).ok

\* a fresh report with an auto-optimizable issue that lists the scene root
C27_RootListed ==
  /\ passes >= 1
  /\ \E i \in 1..Len(report.issues) :
        /\ report.issues[i].canAutoOptimize
        /\ Includes(report.issues[i].affectedUuids, Root)

\* onAnalysisUpdate: the state an issue of the report is displayed in
DisplayedState(issue) ==
  IF issue.id \in host.appliedIssueIds THEN "applied"
  ELSE IF issue.id \in host.dismissedIssueIds THEN "dismissed" ELSE "idle"

\* C28: applied state matches what was applied.  An issue of a freshly
\* published report is shown in state 'applied' only if a transform was
\* successfully applied for that very issue, that is for the node set the
\* issue now lists; an issue raised for nodes that were never transformed is
\* never shown as applied.
C28_AppliedStateMatches ==
  (obs.runs >= 1 /\ passes >= 1) =>
    \A i \in 1..Len(report.issues) :
       DisplayedState(report.issues[i]) = "applied" =>
         <<report.issues[i].id, Range(report.issues[i].affectedUuids)>> \in obs.applied

\* what the id set does give: an issue shown as applied carries the id of an
\* issue for which handleOptimize got a result
C28_AppliedIdWasApplied ==
  (obs.runs >= 1 /\ passes >= 1) =>
    \A i \in 1..Len(report.issues) :
       DisplayedState(report.issues[i]) = "applied" =>
         \E a \in obs.applied : a[1] = report.issues[i].id

\* a fresh report after a successful transform showing an applied issue
\* none of whose nodes was ever handed to a transform
C28_AppliedForOtherNodes ==
  /\ obs.runs >= 1
  /\ passes >= 1
  /\ \E i \in 1..Len(report.issues) :
        /\ DisplayedState(report.issues[i]) = "applied"
        /\ \A a \in obs.applied : a[2] \cap Range(report.issues[i].affectedUuids) = {}

\* a step of handleOptimize that hands over the transform and id list of
\* the call before it, which had succeeded
Reapply ==
  /\ OptimizeStep
  /\ last.ok
  /\ last'.op = last.op
  /\ last'.ids = last.ids

Retry ==
  IF last.op = "convert_to_instanced" THEN convertToInstanced(nodes, geoms, last.ids)
  ELSE IF last.op = "merge_static" THEN mergeMeshes(nodes, geoms, last.ids)
  ELSE generateLODForBatch(nodes, geoms, last.ids)

\* the same at the level of the transforms, whoever calls them: after a
\* successful call on a scene whose root is a group, with ids of nodes that
\* existed or of none (a new node's uuid is in no earlier list), the same
\* call again returns no result and changes nothing
C29_RetryFails ==
  (/\ last.op \in {"convert_to_instanced", "merge_static", "generate_lod"}
   /\ last.ok
   /\ ops < MaxOps
   /\ Range(last.ids) \subseteq (DOMAIN last.pre \cup {Ghost})
   /\ nodes[Root].kind = "Group") =>
     /\ ~Retry.ok
     /\ Retry.nodes = nodes
     /\ Retry.geoms = geoms

\* the resolved originals that the last call took out of the scene
RemovedOriginals == {id \in Range(last.resolved) : id \notin Reachable(nodes)}

\* C30: provenance count is accurate.  The originalCount in the tag of the
\* node produced by convertToInstanced or mergeMeshes equals the number of
\* original mesh nodes the call resolved and removed from the scene, also
\* when the id list holds ids that do not resolve or one id more than once.
C30_ProvenanceCount ==
  (last.op \in {"convert_to_instanced", "merge_static"} /\ last.ok) =>
     nodes[last.created[1]].optimized.originalCount = Cardinality(RemovedOriginals)

\* the count is right for instancing, and for a merge whose list names each
\* resolved mesh once and nothing else
C30_CountOfResolvingList ==
  (/\ last.op \in {"convert_to_instanced", "merge_static"}
   /\ last.ok
   /\ (last.op = "merge_static" => Len(last.ids) = Len(last.resolved))) =>
     nodes[last.created[1]].optimized.originalCount = Cardinality(RemovedOriginals)

\* a merge that went through on a list with an id that resolved to nothing
C30_MergeWithUnresolvedId ==
  /\ last.op = "merge_static"
  /\ last.ok
  /\ Includes(last.ids, Ghost)
  /\ Len(last.resolved) < Len(last.ids)

====
